---- MODULE Spec2Model ----
(***************************************************************************)
(* Model of the message scheduling core of SoundPlayerDetel:               *)
(*   models/message_item.py            MessageQueueItem                    *)
(*   services/queue_service.py         QueueService                        *)
(*   services/message_queue_serializer.py  MessageQueueSerializer          *)
(*   services/audio_fade_manager.py    AudioFadeManager                    *)
(*   services/message_queue_manager.py MessageQueueManager                 *)
(*                                                                         *)
(* Time is counted in units of 1/UnitsPerSecond second, so that an         *)
(* interval of a fractional number of seconds (interval is a float number  *)
(* of minutes in the code) and its truncation int(interval * 60) differ.   *)
(* A timestamp is a natural number; None stands for Python's None and      *)
(* Missing for an attribute the object does not have.                      *)
(***************************************************************************)
EXTENDS Integers, Sequences, FiniteSets, TLC

VARIABLES
    now,                        \* datetime.now()
    message_queue,              \* QueueService.message_queue (list kept as a heap)
    last_end_time_by_priority,  \* QueueService.last_end_time_by_priority
    last_global_end_time,       \* QueueService.last_global_end_time
    currently_playing,          \* QueueService.currently_playing
    queue_file,                 \* contents of the persistence file
    session_lock,               \* whether session.lock exists
    loaded,                     \* the last MessageQueueSerializer.load_queue: what it
                                \* read, when, and what it returned
    ret,                        \* the last operation, its argument and its result
    calls,                      \* how many completions and removals were issued
    fade,                       \* AudioFadeManager and the radio channel
    loop                        \* MessageQueueManager and the message player

vars == <<now, message_queue, last_end_time_by_priority, last_global_end_time,
          currently_playing, queue_file, session_lock, loaded, ret, calls,
          fade, loop>>

-----------------------------------------------------------------------------
(* Bounds of the model *)

UnitsPerSecond == 2
MaxTicks == 2
MaxPriority == 3
MaxEnds == 2
MaxRemoves == 1

Files == {"a", "b", "c"}
Priorities == 1..MaxPriority
\* the messages the user adds: <<filename, priority, interval * 60 in time units>>;
\* the intervals are no repeat, 1.5 s and 2 s at two units a second
AddChoices ==
    {<<"a", 1, 3>>, <<"a", 2, 4>>, <<"b", 2, 4>>, <<"b", 1, 0>>, <<"c", 3, 4>>}

None == -1
Missing == -2

-----------------------------------------------------------------------------
(* models/message_item.py *)

\* int(interval * 60): whole seconds, truncated
IntervalSeconds(interval) == interval \div UnitsPerSecond

\* timedelta(seconds = s) for a whole number of seconds s
Seconds(s) == s * UnitsPerSecond

\* MessageQueueItem.__init__
NewItem(filename, priority, interval) ==
    [filename |-> filename, priority |-> priority, interval |-> interval,
     next_play_time |-> now, end_time |-> None, is_pending |-> priority > 1,
     last_played |-> Missing, interval_seconds |-> Missing]

NoItem ==
    [filename |-> "", priority |-> 0, interval |-> 0,
     next_play_time |-> None, end_time |-> None, is_pending |-> FALSE,
     last_played |-> Missing, interval_seconds |-> Missing]

\* MessageQueueItem.__lt__
Lt(a, b) ==
    \/ a.priority < b.priority
    \/ a.priority = b.priority /\ a.next_play_time < b.next_play_time

-----------------------------------------------------------------------------
(* heapq, as called by QueueService; positions are 0-based as in Python *)

At(h, pos) == h[pos + 1]
Put(h, pos, x) == [h EXCEPT ![pos + 1] = x]

RECURSIVE SiftDownLoop(_, _, _, _)
SiftDownLoop(h, startpos, pos, newitem) ==
    IF pos > startpos /\ Lt(newitem, At(h, (pos - 1) \div 2))
    THEN SiftDownLoop(Put(h, pos, At(h, (pos - 1) \div 2)), startpos,
                      (pos - 1) \div 2, newitem)
    ELSE Put(h, pos, newitem)

\* heapq._siftdown
SiftDown(h, startpos, pos) == SiftDownLoop(h, startpos, pos, At(h, pos))

RECURSIVE SiftUpLoop(_, _, _, _)
SiftUpLoop(h, startpos, pos, newitem) ==
    LET childpos == 2 * pos + 1
        rightpos == childpos + 1
        c == IF rightpos < Len(h) /\ ~Lt(At(h, childpos), At(h, rightpos))
             THEN rightpos ELSE childpos
    IN  IF childpos < Len(h)
        THEN SiftUpLoop(Put(h, pos, At(h, c)), startpos, c, newitem)
        ELSE SiftDown(Put(h, pos, newitem), startpos, pos)

\* heapq._siftup
SiftUp(h, pos) == SiftUpLoop(h, pos, pos, At(h, pos))

RECURSIVE HeapifyFrom(_, _)
HeapifyFrom(h, i) == IF i < 0 THEN h ELSE HeapifyFrom(SiftUp(h, i), i - 1)

\* heapq.heapify
Heapify(h) == HeapifyFrom(h, (Len(h) \div 2) - 1)

\* heapq.heappush
HeapPush(h, x) == SiftDown(Append(h, x), 0, Len(h))

-----------------------------------------------------------------------------
(* List helpers *)

Indices(q) == 1..Len(q)

Min(S) == CHOOSE x \in S : \A y \in S : x <= y
Max(S) == CHOOSE x \in S : \A y \in S : x >= y

\* the list without its element at index i
RemoveAt(q, i) == SubSeq(q, 1, i - 1) \o SubSeq(q, i + 1, Len(q))

\* [x for x in q if P(x)], as the increasing sequence of the indices kept
RECURSIVE FilterIdx(_, _, _)
FilterIdx(q, keep, i) ==
    IF i > Len(q) THEN <<>>
    ELSE (IF i \in keep THEN <<i>> ELSE <<>>) \o FilterIdx(q, keep, i + 1)

-----------------------------------------------------------------------------
(* services/message_queue_serializer.py *)

\* datetime.isoformat() and datetime.fromisoformat(): the text of a timestamp
Isoformat(t) == <<"T", t>>
IsIso(s) == Len(s) = 2 /\ s[1] = "T"
Fromisoformat(s) == s[2]

\* a key the JSON object does not have
Absent == <<>>
\* a save_timestamp that fromisoformat() rejects
BadStamp == <<"?">>

NoFile == [format |-> "none"]
CorruptFile == [format |-> "corrupt"]

\* one entry of 'messages', as save_queue builds it
SerializableItem(item) ==
    [filename |-> item.filename,
     priority |-> item.priority,
     interval |-> item.interval,
     interval_seconds |->
         IF item.interval_seconds \in {Missing, None}
         THEN IntervalSeconds(item.interval) ELSE item.interval_seconds,
     next_play_time |-> Isoformat(item.next_play_time),
     is_pending |-> item.is_pending,
     end_time |->
         IF item.end_time # None THEN Isoformat(item.end_time) ELSE Absent,
     last_played |->
         IF item.last_played \notin {Missing, None}
         THEN Isoformat(item.last_played) ELSE Absent]

\* the document save_queue writes
SaveData(queue_items, is_shutdown) ==
    [format |-> "dict",
     save_timestamp |-> Isoformat(now),
     is_shutdown_save |-> is_shutdown,
     messages |-> [i \in Indices(queue_items) |-> SerializableItem(queue_items[i])]]

\* a variant of LockAfterSave that never removes the marker
LockAfterSaveKept(lock, is_shutdown) == lock

\* MessageQueueSerializer._remove_session_lock, as save_queue uses it
LockAfterSave(lock, is_shutdown) == IF is_shutdown THEN FALSE ELSE lock

\* the time gap in seconds computed by _detect_program_restart_v2
TimeGapThreshold == 60
ParseErrorGap == 999999

\* a variant of TimeGapUnits that takes a missing save_timestamp for an error
TimeGapUnitsStrict(data) ==
    IF IsIso(data.save_timestamp)
    THEN now - Fromisoformat(data.save_timestamp)
    ELSE Seconds(ParseErrorGap)

TimeGapUnits(data) ==
    IF data.save_timestamp = Absent THEN 0
    ELSE IF IsIso(data.save_timestamp)
         THEN now - Fromisoformat(data.save_timestamp)
         ELSE Seconds(ParseErrorGap)

\* a variant of DetectProgramRestartV2 that does not look at the shutdown flag
DetectIgnoringShutdownFlag(data, lock) ==
    IF ~lock THEN TRUE
    ELSE IF TimeGapUnits(data) > Seconds(TimeGapThreshold) THEN TRUE
    ELSE FALSE

\* a variant of DetectProgramRestartV2 that takes a gap of 60 s for a restart
DetectRestartAtThreshold(data, lock) ==
    IF data.is_shutdown_save THEN TRUE
    ELSE IF ~lock THEN TRUE
    ELSE IF TimeGapUnits(data) >= Seconds(TimeGapThreshold) THEN TRUE
    ELSE FALSE

\* MessageQueueSerializer._detect_program_restart_v2
DetectProgramRestartV2(data, lock) ==
    IF data.is_shutdown_save THEN TRUE
    ELSE IF ~lock THEN TRUE
    ELSE IF TimeGapUnits(data) > Seconds(TimeGapThreshold) THEN TRUE
    ELSE FALSE

\* a variant of IsRestart that decides for the old format as for the new one
IsRestartByMarker(data, lock) ==
    IF data.format = "list" THEN ~lock ELSE DetectProgramRestartV2(data, lock)

\* is_restart as load_queue decides it
IsRestart(data, lock) ==
    IF data.format = "list" THEN TRUE ELSE DetectProgramRestartV2(data, lock)

\* a variant of LoadItem that resets the item whatever the decision was
LoadItemAlwaysReset(item_data, is_restart) ==
    LET item == NewItem(item_data.filename, item_data.priority, item_data.interval)
        secs == IF item_data.interval_seconds = Missing
                THEN IntervalSeconds(item.interval)
                ELSE item_data.interval_seconds
    IN  [item EXCEPT !.interval_seconds = secs,
                     !.next_play_time = now + Seconds(secs),
                     !.is_pending = item.priority > 1,
                     !.last_played = None,
                     !.end_time = None]

\* the item load_queue builds from one stored entry
LoadItem(item_data, is_restart) ==
    LET item == NewItem(item_data.filename, item_data.priority, item_data.interval)
        secs == IF item_data.interval_seconds = Missing
                THEN IntervalSeconds(item.interval)
                ELSE item_data.interval_seconds
    IN  IF is_restart
        THEN [item EXCEPT !.interval_seconds = secs,
                          !.next_play_time = now + Seconds(secs),
                          !.is_pending = item.priority > 1,
                          !.last_played = None,
                          !.end_time = None]
        ELSE [item EXCEPT !.interval_seconds = secs,
                          !.next_play_time = Fromisoformat(item_data.next_play_time),
                          !.is_pending = item_data.is_pending,
                          !.end_time =
                              IF item_data.end_time # Absent
                              THEN Fromisoformat(item_data.end_time) ELSE None,
                          !.last_played =
                              IF item_data.last_played # Absent
                              THEN Fromisoformat(item_data.last_played) ELSE Missing]

\* load_queue: building the item from this entry raises, KeyError for an
\* entry without priority and ValueError from fromisoformat()
LoadItemRaises(item_data, is_restart) ==
    \/ item_data.priority = Missing
    \/ /\ ~is_restart
       /\ \/ ~IsIso(item_data.next_play_time)
          \/ item_data.end_time # Absent /\ ~IsIso(item_data.end_time)
          \/ item_data.last_played # Absent /\ ~IsIso(item_data.last_played)

\* the entries before the first one that raises
LoadableEntries(data, lock) ==
    {i \in Indices(data.messages) :
        \A j \in 1..i : ~LoadItemRaises(data.messages[j], IsRestart(data, lock))}

\* a variant of LoadQueueItems that returns the items built before the exception
LoadQueueItemsPartial(data, lock) ==
    IF data.format \in {"none", "corrupt"} THEN <<>>
    ELSE [i \in LoadableEntries(data, lock) |->
              LoadItem(data.messages[i], IsRestart(data, lock))]

\* MessageQueueSerializer.load_queue: no file, or an exception anywhere in the
\* try block, gives the empty list
LoadQueueItems(data, lock) ==
    IF data.format \in {"none", "corrupt"} THEN <<>>
    ELSE IF LoadableEntries(data, lock) # Indices(data.messages) THEN <<>>
    ELSE [i \in Indices(data.messages) |->
              LoadItem(data.messages[i], IsRestart(data, lock))]

\* what one call of load_queue read and returned
LoadRecord(data, lock) ==
    [items |-> LoadQueueItems(data, lock),
     is_restart |-> IF data.format \in {"none", "corrupt"} THEN FALSE
                    ELSE IsRestart(data, lock),
     at |-> now, lock |-> lock, data |-> data]

\* load_queue was not called
NoLoad ==
    [items |-> <<>>, is_restart |-> FALSE, at |-> None, lock |-> FALSE,
     data |-> NoFile]

-----------------------------------------------------------------------------
(* services/queue_service.py *)

AddDelaySeconds == 10
AddFallbackSeconds == 30

NoEndTimes == [p \in Priorities |-> None]

\* a variant of SaveQueueFile that writes the file as a shutdown save
SaveQueueFileShutdown(q) == SaveData(q, TRUE)

\* QueueService._save_queue: serializer.save_queue(self.message_queue)
SaveQueueFile(q) == SaveData(q, FALSE)

\* a variant of AddRejected that lets every add through
AddRejectedNever(q, filename) == FALSE

\* a variant of AddRejected that looks at the first queued message only
AddRejectedFirstOnly(q, filename) == q # <<>> /\ q[1].filename = filename

\* add_message: a message with this filename is already queued
AddRejected(q, filename) == \E i \in Indices(q) : q[i].filename = filename

ExistingPriorities(q) == {q[i].priority : i \in Indices(q)}

\* add_message: no other message, or this one has the highest precedence
AddIsTop(q, priority) ==
    ExistingPriorities(q) = {} \/ priority <= Min(ExistingPriorities(q))

\* add_message: the message as it is pushed
AddedMessage(q, lastEnd, filename, priority, interval) ==
    LET message == NewItem(filename, priority, interval)
        higher_priority == Min(ExistingPriorities(q))
    IN  IF AddIsTop(q, priority)
        THEN [message EXCEPT !.next_play_time = now + Seconds(AddDelaySeconds),
                             !.is_pending = FALSE]
        ELSE [message EXCEPT
                 !.next_play_time =
                     IF lastEnd[higher_priority] # None
                     THEN lastEnd[higher_priority] + interval
                     ELSE now + Seconds(AddFallbackSeconds),
                 !.is_pending = TRUE]

\* add_message: the queued messages after the new one took precedence
AddDemote(q, priority) ==
    [i \in Indices(q) |->
        IF AddIsTop(q, priority) /\ q[i].priority > priority
        THEN [q[i] EXCEPT !.is_pending = TRUE] ELSE q[i]]

\* QueueService.add_message, for a filename that is not queued
AddMessageQueue(q, lastEnd, filename, priority, interval) ==
    HeapPush(AddDemote(q, priority),
             AddedMessage(q, lastEnd, filename, priority, interval))

\* a variant of FindNextPriority that does not wrap around to the lowest priority
FindNextPriorityNoWrap(q, current_priority) ==
    LET higher == {p \in ExistingPriorities(q) : p > current_priority}
    IN  IF higher # {} THEN Min(higher) ELSE None

\* QueueService._find_next_priority
FindNextPriority(q, current_priority) ==
    LET available == ExistingPriorities(q)
        higher == {p \in available : p > current_priority}
    IN  IF available = {} THEN None
        ELSE IF higher # {} THEN Min(higher)
        ELSE Min(available)

\* register_message_end: index of the queued message that ended, 0 if none
EndedIndex(q, message) ==
    LET found == {i \in Indices(q) : /\ q[i].filename = message.filename
                                     /\ q[i].priority = message.priority}
    IN  IF found = {} THEN 0 ELSE Min(found)

\* register_message_end, step 1: reschedule, remove or push back
EndReschedule(q, message) ==
    LET end_time == message.end_time
        i == EndedIndex(q, message)
    IN  IF i > 0
        THEN IF message.interval > 0
             THEN [q EXCEPT ![i].next_play_time = end_time + message.interval,
                            ![i].end_time = end_time]
             ELSE RemoveAt(q, i)
        ELSE IF message.interval > 0
             THEN HeapPush(q, [message EXCEPT
                                  !.next_play_time = end_time + message.interval,
                                  !.is_pending = TRUE])
             ELSE q

\* a variant of EndActivate that schedules the next tier from the current time
EndActivateFromNow(q, message) ==
    LET next_priority == FindNextPriority(q, message.priority)
    IN  IF next_priority = None THEN q
        ELSE [i \in Indices(q) |->
                IF q[i].priority = next_priority
                THEN [q[i] EXCEPT !.next_play_time = now + q[i].interval,
                                  !.is_pending = FALSE]
                ELSE IF q[i].priority > next_priority
                THEN [q[i] EXCEPT !.is_pending = TRUE]
                ELSE q[i]]

\* register_message_end, step 2: activate the next priority in the cycle
EndActivate(q, message) ==
    LET end_time == message.end_time
        next_priority == FindNextPriority(q, message.priority)
    IN  IF next_priority = None THEN q
        ELSE [i \in Indices(q) |->
                IF q[i].priority = next_priority
                THEN [q[i] EXCEPT !.next_play_time = end_time + q[i].interval,
                                  !.is_pending = FALSE]
                ELSE IF q[i].priority > next_priority
                THEN [q[i] EXCEPT !.is_pending = TRUE]
                ELSE q[i]]

\* QueueService.register_message_end: the queue it leaves
RegisterMessageEndQueue(q, message) ==
    CHOOSE heap \in {Heapify(activated) :
                        activated \in {EndActivate(rescheduled, message) :
                            rescheduled \in {EndReschedule(q, message)}}} : TRUE

\* identify_duplicates: the index kept for the filename of q[i]
LatestIndex(q, i) ==
    LET same == {j \in Indices(q) : q[j].filename = q[i].filename}
        best == Min({q[j].next_play_time : j \in same})
    IN  Min({j \in same : q[j].next_play_time = best})

DuplicatesFound(q) ==
    \E i \in Indices(q) : LatestIndex(q, i) # i /\ ~q[i].is_pending

\* QueueService.identify_duplicates: the queue it leaves
IdentifyDuplicates(q) ==
    IF DuplicatesFound(q)
    THEN Heapify([i \in Indices(q) |->
                     IF LatestIndex(q, i) # i
                     THEN [q[i] EXCEPT !.is_pending = TRUE] ELSE q[i]])
    ELSE q

\* get_next_message: the indices of the messages that are active and due
ReadyIndices(q) ==
    {i \in Indices(q) : ~q[i].is_pending /\ now - q[i].next_play_time >= 0}

\* get_next_message: index of the selected message, 0 if none
SelectedIndex(q) ==
    LET ready == ReadyIndices(q)
        min_priority == Min({q[i].priority : i \in ready})
        highest == {i \in ready : q[i].priority = min_priority}
        earliest == Min({q[i].next_play_time : i \in highest})
    IN  IF ready = {} THEN 0
        ELSE Min({i \in highest : q[i].next_play_time = earliest})

\* get_next_message: the selected message is marked pending while it plays
MarkSelected(q, selected) ==
    [i \in Indices(q) |->
        IF /\ q[i].filename = selected.filename
           /\ q[i].priority = selected.priority
           /\ q[i].next_play_time = selected.next_play_time
        THEN [q[i] EXCEPT !.is_pending = TRUE] ELSE q[i]]

\* remove_message: index of the message removed, 0 if none
RemoveIndex(q, filename) ==
    LET found == {i \in Indices(q) : q[i].filename = filename}
    IN  IF found = {} THEN 0 ELSE Min(found)

\* remove_message: the last element takes the place of the removed one
RemoveMessageQueue(q, i) ==
    LET rest == SubSeq(q, 1, Len(q) - 1)
    IN  Heapify(IF i = Len(q) THEN rest ELSE [rest EXCEPT ![i] = q[Len(q)]])

\* _reset_expired_times: the indices of the first item of each (filename, priority)
FirstOfKey(items) ==
    {i \in Indices(items) :
        ~\E j \in 1..(i - 1) : /\ items[j].filename = items[i].filename
                               /\ items[j].priority = items[i].priority}

\* _reset_expired_times: the item kept for the key of items[i], the first of
\* those with the latest next_play_time
KeptOfKey(items, i) ==
    LET same == {j \in Indices(items) : /\ items[j].filename = items[i].filename
                                        /\ items[j].priority = items[i].priority}
        latest == Max({items[j].next_play_time : j \in same})
    IN  items[Min({j \in same : items[j].next_play_time = latest})]

UniqueItems(items) ==
    LET first == FilterIdx(items, FirstOfKey(items), 1)
    IN  [k \in Indices(first) |-> KeptOfKey(items, first[k])]

\* items.sort(key = lambda x: x.priority), a stable sort
RECURSIVE SortByPriorityFrom(_, _)
SortByPriorityFrom(items, p) ==
    IF p > Max({0} \cup ExistingPriorities(items)) THEN <<>>
    ELSE SelectSeq(items, LAMBDA x : x.priority = p)
             \o SortByPriorityFrom(items, p + 1)

SortByPriority(items) == SortByPriorityFrom(items, 0)

\* a variant of ResetExpiredTimes that keeps the is_pending of the messages
\* that are not yet due
ResetExpiredTimesKeepsPending(items) ==
    LET u == SortByPriority(UniqueItems(items))
        lowest_priority == Min(ExistingPriorities(u))
    IN  IF items = <<>> THEN items
        ELSE [i \in Indices(u) |->
                IF u[i].next_play_time <= now
                THEN IF u[i].priority = lowest_priority
                     THEN [u[i] EXCEPT !.is_pending = FALSE,
                               !.next_play_time = now + Seconds(AddDelaySeconds)]
                     ELSE [u[i] EXCEPT !.is_pending = TRUE]
                ELSE u[i]]

\* QueueService._reset_expired_times
ResetExpiredTimes(items) ==
    LET u == SortByPriority(UniqueItems(items))
        lowest_priority == Min(ExistingPriorities(u))
    IN  IF items = <<>> THEN items
        ELSE [i \in Indices(u) |->
                IF u[i].next_play_time <= now
                THEN IF u[i].priority = lowest_priority
                     THEN [u[i] EXCEPT !.is_pending = FALSE,
                               !.next_play_time = now + Seconds(AddDelaySeconds)]
                     ELSE [u[i] EXCEPT !.is_pending = TRUE]
                ELSE [u[i] EXCEPT !.is_pending = (u[i].priority # lowest_priority)]]

-----------------------------------------------------------------------------
(* Operations of QueueService *)

Result(op, msg, flag) == [op |-> op, msg |-> msg, flag |-> flag]

\* QueueService.add_message
AddMessage(filename, priority, interval) ==
    /\ IF AddRejected(message_queue, filename)
       THEN /\ ret' = Result("add", NoItem, FALSE)
            /\ UNCHANGED <<message_queue, queue_file>>
       ELSE /\ message_queue' = AddMessageQueue(message_queue,
                    last_end_time_by_priority, filename, priority, interval)
            /\ queue_file' = SaveQueueFile(message_queue')
            /\ ret' = Result("add",
                    AddedMessage(message_queue, last_end_time_by_priority,
                                 filename, priority, interval), TRUE)
    /\ UNCHANGED <<now, last_end_time_by_priority, last_global_end_time,
                   currently_playing, session_lock, loaded, calls, fade, loop>>

\* QueueService.remove_message
RemoveMessage(filename) ==
    /\ calls.removes < MaxRemoves
    /\ calls' = [calls EXCEPT !.removes = @ + 1]
    /\ IF RemoveIndex(message_queue, filename) = 0
       THEN /\ ret' = Result("remove", NoItem, FALSE)
            /\ UNCHANGED <<message_queue, queue_file>>
       ELSE /\ message_queue' = RemoveMessageQueue(message_queue,
                    RemoveIndex(message_queue, filename))
            /\ queue_file' = SaveQueueFile(message_queue')
            /\ ret' = Result("remove",
                    message_queue[RemoveIndex(message_queue, filename)], TRUE)
    /\ UNCHANGED <<now, last_end_time_by_priority, last_global_end_time,
                   currently_playing, session_lock, loaded, fade, loop>>

\* QueueService.clear_queue
ClearQueue ==
    /\ calls.removes < MaxRemoves
    /\ calls' = [calls EXCEPT !.removes = @ + 1]
    /\ message_queue' = <<>>
    /\ last_end_time_by_priority' = NoEndTimes
    /\ last_global_end_time' = None
    /\ queue_file' = SaveQueueFile(<<>>)
    /\ ret' = Result("clear", NoItem, TRUE)
    /\ UNCHANGED <<now, currently_playing, session_lock, loaded, fade, loop>>

\* QueueService.get_next_message
GetNextMessage ==
    \E q \in {IdentifyDuplicates(message_queue)} :
    \E s \in {SelectedIndex(q)} :
        /\ queue_file' = IF DuplicatesFound(message_queue)
                         THEN SaveQueueFile(q) ELSE queue_file
        /\ IF s = 0
           THEN /\ message_queue' = q
                /\ ret' = Result("get_next", NoItem, FALSE)
                /\ UNCHANGED currently_playing
           ELSE /\ message_queue' = MarkSelected(q, q[s])
                /\ currently_playing' = q[s]
                /\ ret' = Result("get_next", q[s], TRUE)
        /\ UNCHANGED <<now, last_end_time_by_priority, last_global_end_time,
                       session_lock, loaded, calls, fade, loop>>

\* QueueService.register_message_end(message), message.end_time set by the
\* caller: what it does to the scheduler and the persistence file
RegisterMessageEndEffect(message) ==
    /\ message.end_time # None
    /\ last_end_time_by_priority' =
           [last_end_time_by_priority EXCEPT ![message.priority] = message.end_time]
    /\ last_global_end_time' = message.end_time
    /\ \E rescheduled \in {RegisterMessageEndQueue(message_queue, message)} :
          /\ message_queue' = rescheduled
          /\ queue_file' = SaveQueueFile(rescheduled)
    /\ currently_playing' = NoItem
    /\ ret' = Result("end", message, EndedIndex(message_queue, message) > 0)

\* QueueService.register_message_end called on its own
RegisterMessageEnd(message) ==
    /\ calls.ends < MaxEnds
    /\ calls' = [calls EXCEPT !.ends = @ + 1]
    /\ RegisterMessageEndEffect(message)
    /\ UNCHANGED <<now, session_lock, loaded, fade, loop>>

-----------------------------------------------------------------------------
(* services/audio_fade_manager.py *)

\* AudioFadeManager.__init__
FadeDurationSeconds == 4
BackgroundVolume == 2
NormalVolume == 100
MaxVolume == 100

\* the steps of one ramp, int(duration * self.fade_steps) in the code
FadeSteps == 2
\* the calls of fade_radio_volume in one run
MaxRamps == 1

\* int(a / b) for b > 0: truncation towards zero
TruncDiv(a, b) == IF a >= 0 THEN a \div b ELSE -((-a) \div b)

Clamp(lo, hi, v) == Max({lo, Min({hi, v})})

\* floor(100 * sqrt(i / steps))
Sqrt100(i, steps) ==
    CHOOSE r \in 0..100 :
        /\ r * r * steps <= 10000 * i
        /\ (r + 1) * (r + 1) * steps > 10000 * i

\* calculate_fade_value(i / steps, curve_type) as <<numerator, denominator>>.
\* The sine curve "smooth" is exact at progress 0, 1/2 and 1 and is the quadratic
\* ease-in-out elsewhere; the square root is taken to two decimals.
CalculateFadeValue(i, steps, curve_type) ==
    CASE curve_type = "exponential" -> <<i * i, steps * steps>>
      [] curve_type = "logarithmic" -> <<Sqrt100(i, steps), 100>>
      [] curve_type = "smooth" ->
            IF 2 * i <= steps
            THEN <<2 * i * i, steps * steps>>
            ELSE <<steps * steps - 2 * (steps - i) * (steps - i), steps * steps>>
      [] OTHER -> <<i, steps>>

\* int(start_volume + (end_volume - start_volume) * fade_value)
Interpolate(start_volume, end_volume, fade_value) ==
    TruncDiv(start_volume * fade_value[2]
                 + (end_volume - start_volume) * fade_value[1], fade_value[2])

\* no fade thread has set the radio volume
NoApplied ==
    [value |-> None, floor |-> None, below |-> FALSE, variant |-> 0, ramp |-> 0]

FadeInit ==
    fade = [background_volume |-> BackgroundVolume,
            fade_duration |-> Seconds(FadeDurationSeconds),
            fade_curve |-> "smooth",
            fade_threads |-> 0,
            threads |-> <<>>,
            radio_volume |-> NormalVolume,
            current_radio_volume |-> NormalVolume,
            ramps |-> 0,
            applied |-> NoApplied]

\* a fade thread as fade_radio_volume starts it: variant 1 is the first
\* fade_thread closure, variant 2 the second one; floor and below record the
\* background volume at the call and whether the requested end was below it,
\* ramp the call of fade_radio_volume that started the thread
FadeThread(variant, start_volume, end_volume, fade_type, floor, below, ramp) ==
    [variant |-> variant, start_volume |-> start_volume,
     end_volume |-> end_volume, fade_type |-> fade_type, i |-> 0,
     pc |-> "loop", floor |-> floor, below |-> below, ramp |-> ramp]

\* a thread that found self.fade_threads empty leaves its loop
Break(th) == [th EXCEPT !.pc = IF th.variant = 1 THEN "final" ELSE "done"]

Running(f) == {t \in Indices(f.threads) : f.threads[t].pc = "loop"}

\* threads that have returned are dropped
Alive(threads) == SelectSeq(threads, LAMBDA th : th.pc # "done")

\* AudioFadeManager.fade_radio_volume; the threads in 'cancelled' run their
\* check between the clearing of fade_threads and the appending of the new threads
FadeRadioVolume(f, start_volume, end_volume, cancelled) ==
    LET floor == f.background_volume
        clamped == IF end_volume < floor THEN floor ELSE end_volume
        old == [t \in Indices(f.threads) |->
                   IF t \in cancelled THEN Break(f.threads[t]) ELSE f.threads[t]]
    IN  [f EXCEPT
           !.fade_threads = 2,
           !.ramps = @ + 1,
           !.threads = Alive(old) \o
               <<FadeThread(1, start_volume, clamped, f.fade_curve, floor,
                            end_volume < floor, f.ramps + 1),
                 FadeThread(2, start_volume, clamped, f.fade_curve, floor,
                            end_volume < floor, f.ramps + 1)>>]

\* the volume one iteration of the loop of a fade thread applies
StepVolume(f, th) ==
    LET current_volume ==
            Interpolate(th.start_volume, th.end_volume,
                        CalculateFadeValue(th.i, FadeSteps, th.fade_type))
    IN  IF th.variant = 1
        THEN Clamp(f.background_volume, MaxVolume, current_volume)
        ELSE Clamp(0, MaxVolume, current_volume)

Applied(th, value) ==
    [value |-> value, floor |-> th.floor, below |-> th.below,
     variant |-> th.variant, ramp |-> th.ramp]

\* one iteration of the loop of fade thread t, or its final assignment
FadeThreadStepped(f, t) ==
    LET th == f.threads[t]
    IN  IF th.pc = "final"
        THEN [f EXCEPT
                !.radio_volume = Max({f.background_volume, th.end_volume}),
                !.applied = Applied(th, Max({f.background_volume, th.end_volume})),
                !.threads = Alive([f.threads EXCEPT ![t].pc = "done"])]
        ELSE IF f.fade_threads = 0
        THEN [f EXCEPT !.threads = Alive([f.threads EXCEPT ![t] = Break(th)])]
        ELSE [f EXCEPT
                !.radio_volume = StepVolume(f, th),
                !.current_radio_volume = StepVolume(f, th),
                !.applied = Applied(th, StepVolume(f, th)),
                !.threads = Alive([f.threads EXCEPT ![t] =
                    IF th.i = FadeSteps THEN Break(th)
                    ELSE [th EXCEPT !.i = th.i + 1]])]

\* AudioFadeManager.start_message_transition
StartMessageTransition(f, cancelled) ==
    LET current_volume ==
            IF f.radio_volume <= 0 THEN NormalVolume ELSE f.radio_volume
        g == [f EXCEPT !.current_radio_volume = current_volume]
    IN  IF current_volume > f.background_volume
        THEN FadeRadioVolume(g, current_volume, f.background_volume, cancelled)
        ELSE g

\* AudioFadeManager.end_message_transition
EndMessageTransition(f, cancelled) ==
    FadeRadioVolume([f EXCEPT !.current_radio_volume = f.radio_volume],
                    f.radio_volume, NormalVolume, cancelled)

\* the presets of apply_preset: duration in half seconds, curve, background_vol
Presets ==
    [professional |-> <<5, "smooth", 5>>,
     fast |-> <<2, "exponential", 10>>,
     smooth |-> <<6, "logarithmic", 8>>,
     dramatic |-> <<8, "exponential", 2>>]

PresetNames == DOMAIN Presets

\* the names apply_preset is called with: its presets and one it does not know
PresetInputs == PresetNames \cup {"custom"}

\* the curves set_fade_settings accepts
FadeCurves == {"linear", "exponential", "logarithmic", "smooth"}

\* AudioFadeManager.set_fade_settings with its three arguments given; duration
\* in half seconds
SetFadeSettings(f, duration, curve, background_vol) ==
    [f EXCEPT
       !.fade_duration = (Clamp(1, 10, duration) * UnitsPerSecond) \div 2,
       !.fade_curve = IF curve \in FadeCurves THEN curve ELSE @,
       !.background_volume = Clamp(0, 50, background_vol)]

\* a variant of ApplyPreset that falls back to a preset for an unknown name
ApplyPresetFallback(f, preset_name) ==
    LET preset == IF preset_name \in PresetNames
                  THEN Presets[preset_name] ELSE Presets["professional"]
    IN  SetFadeSettings(f, preset[1], preset[2], preset[3])

\* AudioFadeManager.apply_preset
ApplyPreset(f, preset_name) ==
    IF preset_name \in PresetNames
    THEN SetFadeSettings(f, Presets[preset_name][1], Presets[preset_name][2],
                         Presets[preset_name][3])
    ELSE f

-----------------------------------------------------------------------------
(* services/message_queue_manager.py *)

CheckIntervalSeconds == 1
CooldownSeconds == 5
\* manager_thread.join(timeout=2.0)
JoinTimeoutSeconds == 2

\* the positions of the interface thread inside remove_message or clear_queue
\* and of the loop thread inside register_message_end, the message that
\* ended, and whether the two calls overlapped
NoRace == [ui |-> "idle", end |-> "idle", msg |-> NoItem, mixed |-> FALSE]

\* _get_next_priority_message returned no message
NoSelection == [ready |-> <<>>, selected |-> NoItem]

\* MessageQueueManager.__init__; thread is the position of the loop thread and
\* wake the time its sleep ends. player is what the message player was last told.
\* sel records the last selection, and starts, ended and failed count the
\* start-of-message sequences, the completed end-of-message sequences and the
\* failed starts; overlap records a play command given while a message played,
\* and error the exception the current iteration raised. stop is the position
\* of the caller of stop() and join the instant its join(timeout) gives up.
LoopInit ==
    loop = [running |-> FALSE, thread |-> "none", wake |-> None,
            current_playing_message |-> NoItem, starting |-> NoItem,
            player |-> "radio", sel |-> NoSelection,
            starts |-> 0, ended |-> 0, failed |-> 0, overlap |-> FALSE,
            error |-> "none", stop |-> "none", join |-> None,
            race |-> NoRace, second |-> "none"]

\* a variant of JoinReturns for a join() without a timeout
JoinReturnsUntimed(l, t) == l.thread = "exited"

\* manager_thread.join(timeout=2.0) returns: the thread has ended or the
\* timeout is over
JoinReturns(l, t) == l.thread = "exited" \/ t >= l.join

\* a variant of NothingPlaying that skips the single-flight check
NothingPlayingUnchecked(l) == TRUE

\* _main_loop: if not self.current_playing_message
NothingPlaying(l) == l.current_playing_message = NoItem

\* the object self.current_playing_message refers to: the queued item, as
\* _get_next_priority_message returns the queue's own object
CurrentObject(q, m) ==
    IF \E i \in Indices(q) : q[i].filename = m.filename
    THEN q[CHOOSE i \in Indices(q) : q[i].filename = m.filename]
    ELSE m

\* _get_next_priority_message: ready_messages, as indices in list order
LoopReady(q) ==
    FilterIdx(q, {i \in Indices(q) :
                     ~q[i].is_pending /\ q[i].next_play_time <= now}, 1)

\* all(msg.last_played is not None for msg in message_queue), evaluated from
\* item i on: "raise" for an item without the attribute
RECURSIVE AllPlayed(_, _)
AllPlayed(q, i) ==
    IF i > Len(q) THEN "true"
    ELSE IF q[i].last_played = Missing THEN "raise"
    ELSE IF q[i].last_played = None THEN "false"
    ELSE AllPlayed(q, i + 1)

\* ready_messages.sort(key = priority) and ready_messages[0]: index of the
\* selected message, 0 if none is ready
LoopSelectedIndex(q) ==
    LET ready == {LoopReady(q)[k] : k \in Indices(LoopReady(q))}
        min_priority == Min({q[i].priority : i \in ready})
    IN  IF ready = {} THEN 0
        ELSE Min({i \in ready : q[i].priority = min_priority})

\* the outcome of _get_next_priority_message: "raise", "activate", "none" or
\* "selected"
LoopSelection(q) ==
    IF AllPlayed(q, 1) = "raise" THEN "raise"
    ELSE IF AllPlayed(q, 1) = "true" /\ LoopReady(q) = <<>> THEN "activate"
    ELSE IF LoopSelectedIndex(q) = 0 THEN "none"
    ELSE "selected"

\* QueueService._activate_next_priority_message: the tier of the lowest
\* priority becomes active, or nothing changes
ActivateNextPriorityMessage(q, activates) ==
    [i \in Indices(q) |->
        IF activates /\ q[i].priority = Min(ExistingPriorities(q))
        THEN [q[i] EXCEPT !.is_pending = FALSE] ELSE q[i]]

\* QueueService.register_message_start: the message is recorded as the one
\* playing; the schedule is not changed
RegisterMessageStart(message) == message

\* time.sleep(seconds) at the end of an iteration of _main_loop
Sleep(l, seconds) == [l EXCEPT !.thread = "sleep", !.wake = now + Seconds(seconds)]

\* a variant of Cooldown in which the exception ends the thread
CooldownExits(l, exception) == [l EXCEPT !.thread = "exited", !.error = exception]

\* except Exception: the exception is printed and time.sleep(5.0) follows
Cooldown(l, exception) == [Sleep(l, CooldownSeconds) EXCEPT !.error = exception]

\* time.sleep(0.5) of end_message_transition
EndWaitUnits == Seconds(1) \div 2

\* a variant of FadeWaitUnits that does not wait for the fade
FadeWaitNone(f) == 0

\* time.sleep(fade_duration + 0.2) ends at the next instant of the clock
FadeWaitUnits(f) == f.fade_duration + 1

\* message.end_time = fade_end_time, on the queued object
WithEndTime(q, m, t) ==
    [i \in Indices(q) |->
        IF q[i].filename = m.filename THEN [q[i] EXCEPT !.end_time = t] ELSE q[i]]

\* the fade threads run to their end one after the other, the first one first
\* or the last one first
RECURSIVE RunFadeThreads(_, _)
RunFadeThreads(f, last_first) ==
    IF f.threads = <<>> THEN f
    ELSE RunFadeThreads(
             FadeThreadStepped(f, IF last_first THEN Len(f.threads) ELSE 1),
             last_first)

-----------------------------------------------------------------------------
(* The scheduler driven through its operations *)


\* QueueService.__init__ with no persisted file; the serializer's constructor
\* has written session.lock
QueueInit ==
    /\ now = 0
    /\ message_queue = <<>>
    /\ last_end_time_by_priority = NoEndTimes
    /\ last_global_end_time = None
    /\ currently_playing = NoItem
    /\ queue_file = NoFile
    /\ session_lock = TRUE
    /\ loaded = NoLoad
    /\ ret = Result("init", NoItem, FALSE)
    /\ calls = [ends |-> 0, removes |-> 0]

Init == QueueInit /\ FadeInit /\ LoopInit

\* time passes, ten seconds at a time
TickUnits == Seconds(AddDelaySeconds)
TickSteps == {TickUnits}

Tick(d) ==
    /\ now + d <= MaxTicks * TickUnits
    /\ now' = now + d
    /\ UNCHANGED <<message_queue, last_end_time_by_priority, last_global_end_time,
                   currently_playing, queue_file, session_lock, loaded, ret,
                   calls, fade, loop>>

\* the caller of register_message_end passes the message it got from
\* get_next_message, with end_time set to the completion time
EndTimes == {now, now + Seconds(FadeDurationSeconds)}

RegisterEnd(t) ==
    /\ currently_playing # NoItem
    /\ RegisterMessageEnd([currently_playing EXCEPT !.end_time = t])

Next ==
    \/ \E c \in AddChoices : AddMessage(c[1], c[2], c[3])
    \/ \E f \in Files : RemoveMessage(f)
    \/ ClearQueue
    \/ GetNextMessage
    \/ \E t \in EndTimes : RegisterEnd(t)
    \/ \E d \in TickSteps : Tick(d)

Spec == Init /\ [][Next]_vars

\* only add_message is called, from the empty queue
NextAdd ==
    \/ \E c \in AddChoices : AddMessage(c[1], c[2], c[3])
    \/ \E d \in TickSteps : Tick(d)

SpecAdd == Init /\ [][NextAdd]_vars

-----------------------------------------------------------------------------
(* The persistence file: saved, and loaded again by a new QueueService *)

\* entries of 'messages' found in the file at start
StoredA ==
    [filename |-> "a", priority |-> 1, interval |-> 3, interval_seconds |-> 1,
     next_play_time |-> Isoformat(7), is_pending |-> TRUE,
     end_time |-> Isoformat(4), last_played |-> Isoformat(2)]

StoredB ==
    [filename |-> "b", priority |-> 2, interval |-> 4, interval_seconds |-> Missing,
     next_play_time |-> Isoformat(300), is_pending |-> FALSE,
     end_time |-> Absent, last_played |-> Absent]

\* a second entry for the filename and priority of StoredA
StoredA2 ==
    [StoredA EXCEPT !.next_play_time = Isoformat(9), !.is_pending = FALSE,
                    !.end_time = Absent]

StoredMessages == {<<>>, <<StoredB, StoredA>>, <<StoredA, StoredB, StoredA2>>}

\* an entry without the key 'priority', and one whose next_play_time does not parse
StoredNoPriority == [StoredA EXCEPT !.priority = Missing]
StoredBadTime == [StoredA EXCEPT !.next_play_time = BadStamp]

DictFile(stamp, flag, messages) ==
    [format |-> "dict", save_timestamp |-> stamp, is_shutdown_save |-> flag,
     messages |-> messages]

\* the old format: a bare list of entries
ListFile(messages) == [format |-> "list", messages |-> messages]

\* the files written at time 0, with and without the shutdown flag, and files
\* whose save_timestamp is missing or cannot be parsed
StoredFiles ==
    {NoFile, CorruptFile, ListFile(<<StoredB, StoredA>>)}
        \cup {DictFile(Isoformat(0), flag, messages) :
                 flag \in BOOLEAN, messages \in StoredMessages}
        \cup {DictFile(stamp, FALSE, <<StoredB, StoredA>>) :
                 stamp \in {Absent, BadStamp}}
        \cup {DictFile(Isoformat(0), FALSE, <<StoredB, bad>>) :
                 bad \in {StoredNoPriority, StoredBadTime}}

InitLoad ==
    /\ now = 0
    /\ message_queue = <<>>
    /\ last_end_time_by_priority = NoEndTimes
    /\ last_global_end_time = None
    /\ currently_playing = NoItem
    /\ queue_file \in StoredFiles
    /\ session_lock \in BOOLEAN
    /\ loaded = NoLoad
    /\ ret = Result("init", NoItem, FALSE)
    /\ calls = [ends |-> 0, removes |-> 0]
    /\ FadeInit /\ LoopInit

\* MessageQueueSerializer.load_queue
SerializerLoadQueue ==
    /\ loaded' = LoadRecord(queue_file, session_lock)
    /\ ret' = Result("load", NoItem, loaded'.is_restart)
    /\ UNCHANGED <<now, message_queue, last_end_time_by_priority,
                   last_global_end_time, currently_playing, queue_file,
                   session_lock, calls, fade, loop>>

\* MessageQueueSerializer.save_queue(self.message_queue, is_shutdown)
SerializerSaveQueue(is_shutdown) ==
    /\ queue_file' = SaveData(message_queue, is_shutdown)
    /\ session_lock' = LockAfterSave(session_lock, is_shutdown)
    /\ ret' = Result("save", NoItem, is_shutdown)
    /\ UNCHANGED <<now, message_queue, last_end_time_by_priority,
                   last_global_end_time, currently_playing, loaded, calls,
                   fade, loop>>

\* MessageQueueSerializer.cleanup
SerializerCleanup ==
    /\ session_lock
    /\ session_lock' = FALSE
    /\ ret' = Result("cleanup", NoItem, TRUE)
    /\ UNCHANGED <<now, message_queue, last_end_time_by_priority,
                   last_global_end_time, currently_playing, queue_file, loaded,
                   calls, fade, loop>>

\* QueueService.__init__(queue_file_path) of a new process: the serializer's
\* constructor writes session.lock, then the file is loaded and adopted
Startup ==
    /\ session_lock' = TRUE
    /\ loaded' = LoadRecord(queue_file, TRUE)
    /\ message_queue' = Heapify(ResetExpiredTimes(loaded'.items))
    /\ last_end_time_by_priority' = NoEndTimes
    /\ last_global_end_time' = None
    /\ currently_playing' = NoItem
    /\ ret' = Result("startup", NoItem, loaded'.is_restart)
    /\ UNCHANGED <<now, queue_file, calls, fade, loop>>

\* time passes, half the restart threshold at a time
MaxWaits == 3
WaitUnits == Seconds(TimeGapThreshold) \div 2

Wait ==
    /\ now + WaitUnits <= MaxWaits * WaitUnits
    /\ now' = now + WaitUnits
    /\ UNCHANGED <<message_queue, last_end_time_by_priority, last_global_end_time,
                   currently_playing, queue_file, session_lock, loaded, ret,
                   calls, fade, loop>>

\* the message the user adds between two loads
LoadAddChoices == {<<"c", 2, 3>>}

NextLoad ==
    \/ SerializerLoadQueue
    \/ \E is_shutdown \in BOOLEAN : SerializerSaveQueue(is_shutdown)
    \/ SerializerCleanup
    \/ Startup
    \/ \E c \in LoadAddChoices : AddMessage(c[1], c[2], c[3])
    \/ Wait

SpecLoad == InitLoad /\ [][NextLoad]_vars

-----------------------------------------------------------------------------
(* The fade manager, its threads and the radio channel *)

QueueVars ==
    <<now, message_queue, last_end_time_by_priority, last_global_end_time,
      currently_playing, queue_file, session_lock, loaded, ret, calls>>

\* the arguments of direct calls of fade_radio_volume
RampStarts == {1, 5, 100}
RampEnds == {0, 100}

\* the volumes the player service sets on the radio channel
PlayerVolumes == {0, 100}

\* a call of fade_radio_volume(start_volume, end_volume)
CallFadeRadioVolume(start_volume, end_volume, cancelled) ==
    /\ fade.ramps < MaxRamps
    /\ fade' = FadeRadioVolume(fade, start_volume, end_volume, cancelled)
    /\ UNCHANGED <<QueueVars, loop>>

CallStartMessageTransition(cancelled) ==
    /\ fade.ramps < MaxRamps
    /\ fade' = StartMessageTransition(fade, cancelled)
    /\ UNCHANGED <<QueueVars, loop>>

CallEndMessageTransition(cancelled) ==
    /\ fade.ramps < MaxRamps
    /\ fade' = EndMessageTransition(fade, cancelled)
    /\ UNCHANGED <<QueueVars, loop>>

CallApplyPreset(preset_name) ==
    /\ fade' = ApplyPreset(fade, preset_name)
    /\ UNCHANGED <<QueueVars, loop>>

\* a fade thread runs one iteration
FadeThreadStep(t) ==
    /\ fade' = FadeThreadStepped(fade, t)
    /\ UNCHANGED <<QueueVars, loop>>

\* AudioFadeManager.cleanup
FadeCleanup ==
    /\ fade' = [fade EXCEPT !.fade_threads = 0, !.radio_volume = NormalVolume]
    /\ UNCHANGED <<QueueVars, loop>>

\* PlayerService sets the volume of the radio channel
PlayerSetRadioVolume(v) ==
    /\ fade' = [fade EXCEPT !.radio_volume = v]
    /\ UNCHANGED <<QueueVars, loop>>

NextFade ==
    \/ \E start_volume \in RampStarts, end_volume \in RampEnds,
          cancelled \in SUBSET Running(fade) :
            CallFadeRadioVolume(start_volume, end_volume, cancelled)
    \/ \E cancelled \in SUBSET Running(fade) :
            CallStartMessageTransition(cancelled)
    \/ \E cancelled \in SUBSET Running(fade) :
            CallEndMessageTransition(cancelled)
    \/ \E preset_name \in PresetInputs : CallApplyPreset(preset_name)
    \/ \E t \in Indices(fade.threads) : FadeThreadStep(t)
    \/ FadeCleanup
    \/ \E v \in PlayerVolumes : PlayerSetRadioVolume(v)

SpecFade == Init /\ [][NextFade]_vars

\* the calls of fade_radio_volume of two transitions that follow each other
MaxOverlap == 2

RampStartTransition(cancelled) ==
    /\ fade.ramps < MaxOverlap
    /\ fade' = StartMessageTransition(fade, cancelled)
    /\ UNCHANGED <<QueueVars, loop>>

RampEndTransition(cancelled) ==
    /\ fade.ramps < MaxOverlap
    /\ fade' = EndMessageTransition(fade, cancelled)
    /\ UNCHANGED <<QueueVars, loop>>

\* fade thread t is about to call audio_set_volume
AppliesVolume(f, t) == f.threads[t].pc = "final" \/ f.fade_threads # 0

NextRamp ==
    \/ \E cancelled \in SUBSET Running(fade) : RampStartTransition(cancelled)
    \/ \E cancelled \in SUBSET Running(fade) : RampEndTransition(cancelled)
    \/ \E t \in Indices(fade.threads) : FadeThreadStep(t)

SpecRamp == Init /\ [][NextRamp]_vars

-----------------------------------------------------------------------------
(* The interface thread and the loop thread on the queue, statement by statement *)

RaceIdle == loop.race.ui = "idle" /\ loop.race.end = "idle"

\* calls that run from start to end while the other thread is outside the queue
RaceAdd(filename, priority, interval) ==
    RaceIdle /\ AddMessage(filename, priority, interval)

RaceGetNext == RaceIdle /\ currently_playing = NoItem /\ GetNextMessage

RaceTick(d) == RaceIdle /\ Tick(d)

\* remove_message up to self.message_queue[index] = self.message_queue[-1]
RaceRemoveBegin(filename) ==
    /\ loop.race.ui = "idle" /\ loop.race.end = "idle"
    /\ calls.removes < MaxRemoves
    /\ calls' = [calls EXCEPT !.removes = @ + 1]
    /\ RemoveIndex(message_queue, filename) # 0
    /\ message_queue' =
           [message_queue EXCEPT ![RemoveIndex(message_queue, filename)] =
               message_queue[Len(message_queue)]]
    /\ loop' = [loop EXCEPT !.race.ui = "remove", !.race.mixed = FALSE]
    /\ UNCHANGED <<now, last_end_time_by_priority, last_global_end_time,
                   currently_playing, queue_file, session_lock, loaded, ret,
                   fade>>

\* remove_message from self.message_queue.pop() on
RaceRemoveFinish ==
    /\ loop.race.ui = "remove"
    /\ \E q \in {Heapify(SubSeq(message_queue, 1, Len(message_queue) - 1))} :
          /\ message_queue' = q
          /\ queue_file' = SaveQueueFile(q)
    /\ loop' = [loop EXCEPT !.race.ui = "idle"]
    /\ UNCHANGED <<now, last_end_time_by_priority, last_global_end_time,
                   currently_playing, session_lock, loaded, ret, calls, fade>>

\* clear_queue: self.message_queue = []
RaceClearBegin ==
    /\ loop.race.ui = "idle"
    /\ calls.removes < MaxRemoves
    /\ calls' = [calls EXCEPT !.removes = @ + 1]
    /\ message_queue' = <<>>
    /\ loop' = [loop EXCEPT !.race.ui = "clear",
                            !.race.mixed = (loop.race.end # "idle")]
    /\ UNCHANGED <<now, last_end_time_by_priority, last_global_end_time,
                   currently_playing, queue_file, session_lock, loaded, ret,
                   fade>>

\* clear_queue from self.last_end_time_by_priority = {} on
RaceClearFinish ==
    /\ loop.race.ui = "clear"
    /\ last_end_time_by_priority' = NoEndTimes
    /\ last_global_end_time' = None
    /\ queue_file' = SaveQueueFile(<<>>)
    /\ loop' = [loop EXCEPT !.race.ui = "idle"]
    /\ UNCHANGED <<now, message_queue, currently_playing, session_lock, loaded,
                   ret, calls, fade>>

\* register_message_end up to the recording of the end time
RaceEndBegin ==
    /\ loop.race.end = "idle" /\ loop.race.ui # "remove"
    /\ currently_playing # NoItem
    /\ calls.ends < MaxEnds
    /\ calls' = [calls EXCEPT !.ends = @ + 1]
    /\ last_end_time_by_priority' =
           [last_end_time_by_priority EXCEPT ![currently_playing.priority] = now]
    /\ last_global_end_time' = now
    /\ loop' = [loop EXCEPT
                  !.race.end = "recorded",
                  !.race.msg = [currently_playing EXCEPT !.end_time = now],
                  !.race.mixed = (loop.race.ui # "idle")]
    /\ UNCHANGED <<now, message_queue, currently_playing, queue_file,
                   session_lock, loaded, ret, fade>>

\* register_message_end, step 1
RaceEndReschedule ==
    /\ loop.race.end = "recorded"
    /\ message_queue' = EndReschedule(message_queue, loop.race.msg)
    /\ loop' = [loop EXCEPT !.race.end = "rescheduled"]
    /\ UNCHANGED <<now, last_end_time_by_priority, last_global_end_time,
                   currently_playing, queue_file, session_lock, loaded, ret,
                   calls, fade>>

\* register_message_end, step 2 and the rest of the method
RaceEndActivate ==
    /\ loop.race.end = "rescheduled"
    /\ \E q \in {Heapify(EndActivate(message_queue, loop.race.msg))} :
          /\ message_queue' = q
          /\ queue_file' = SaveQueueFile(q)
    /\ currently_playing' = NoItem
    /\ loop' = [loop EXCEPT !.race.end = "idle"]
    /\ UNCHANGED <<now, last_end_time_by_priority, last_global_end_time,
                   session_lock, loaded, ret, calls, fade>>

\* the list comprehension of _get_next_priority_message, which a thread
\* switch can place between any two statements of the other thread
RaceScan ==
    /\ loop' = [loop EXCEPT !.sel =
                  [ready |-> [k \in Indices(LoopReady(message_queue)) |->
                                 message_queue[LoopReady(message_queue)[k]]],
                   selected |-> NoItem]]
    /\ UNCHANGED <<QueueVars, fade>>

\* the messages the user adds before the two threads meet
RaceAddChoices == {<<"a", 1, 3>>, <<"b", 1, 4>>, <<"c", 2, 4>>}

NextRace ==
    \/ \E c \in RaceAddChoices : RaceAdd(c[1], c[2], c[3])
    \/ RaceGetNext
    \/ \E d \in TickSteps : RaceTick(d)
    \/ \E f \in Files : RaceRemoveBegin(f)
    \/ RaceRemoveFinish
    \/ RaceClearBegin
    \/ RaceClearFinish
    \/ RaceEndBegin
    \/ RaceEndReschedule
    \/ RaceEndActivate
    \/ RaceScan

SpecRace == Init /\ [][NextRace]_vars

-----------------------------------------------------------------------------
(* The playback loop, its fade threads and the user interface *)

MaxLoopSeconds == 14

QueueState ==
    <<message_queue, last_end_time_by_priority, last_global_end_time,
      currently_playing, queue_file, ret, calls>>

\* MessageQueueManager.start, called once by the application
ManagerStart ==
    /\ ~loop.running /\ loop.thread = "none"
    /\ loop' = [loop EXCEPT !.running = TRUE, !.thread = "sleep", !.wake = now]
    /\ UNCHANGED <<now, QueueState, session_lock, loaded, fade>>

\* MessageQueueManager.stop up to the join of the loop thread, which is alive
\* whenever running is true
ManagerStop ==
    /\ loop.running
    /\ loop' = [loop EXCEPT !.running = FALSE,
                            !.stop = "joining",
                            !.join = now + Seconds(JoinTimeoutSeconds)]
    /\ UNCHANGED <<now, QueueState, session_lock, loaded, fade>>

\* MessageQueueManager.stop returns from the join
StopReturn ==
    /\ loop.stop = "joining"
    /\ JoinReturns(loop, now)
    /\ loop' = [loop EXCEPT !.stop = "returned"]
    /\ UNCHANGED <<now, QueueState, session_lock, loaded, fade>>

\* _main_loop: the test of self.running and check 1 up to the sleep of
\* end_message_transition; is_media_ended is never true in radio mode
LoopCheck ==
    /\ loop.thread = "sleep" /\ now >= loop.wake
    /\ \E media_ended \in BOOLEAN :
          /\ media_ended => loop.player = "message"
          /\ IF ~loop.running
             THEN /\ loop' = [loop EXCEPT !.thread = "exited", !.error = "none"]
                  /\ UNCHANGED message_queue
             ELSE IF loop.current_playing_message # NoItem /\ media_ended
             THEN /\ message_queue' =
                         WithEndTime(message_queue, loop.current_playing_message,
                                     now + fade.fade_duration)
                  /\ loop' = [loop EXCEPT
                                !.error = "none",
                                !.thread = "end_wait",
                                !.wake = now + EndWaitUnits,
                                !.current_playing_message.end_time =
                                    now + fade.fade_duration]
             ELSE /\ loop' = [loop EXCEPT !.thread = "select", !.error = "none"]
                  /\ UNCHANGED message_queue
    /\ UNCHANGED <<now, last_end_time_by_priority, last_global_end_time,
                   currently_playing, queue_file, ret, calls, session_lock,
                   loaded, fade>>

\* _handle_message_end from the ramp of end_message_transition on. The call
\* register_message_end(message, fade_end_time) raises TypeError against a
\* method that takes the message only, and the loop cools down
LoopHandleEnd ==
    /\ loop.thread = "end_wait" /\ now >= loop.wake
    /\ \E cancelled \in {{}, Running(fade)} :
          /\ fade' = EndMessageTransition(fade, cancelled)
          /\ \/ /\ loop' = Cooldown(loop, "TypeError")
                /\ UNCHANGED QueueState
             \/ /\ loop' = [loop EXCEPT !.thread = "select",
                                        !.current_playing_message = NoItem,
                                        !.player = "radio",
                                        !.ended = @ + 1]
                /\ calls' = [calls EXCEPT !.ends = @ + 1]
                /\ \E message \in {CurrentObject(message_queue,
                                                  loop.current_playing_message)} :
                      RegisterMessageEndEffect(message)
    /\ UNCHANGED <<now, session_lock, loaded>>

\* _main_loop, check 2: _get_next_priority_message and _start_message_playback
\* up to its sleep. register_message_start and _activate_next_priority_message
\* raise AttributeError where QueueService does not define them
LoopSelect ==
    /\ loop.thread = "select"
    /\ \E q \in {message_queue} :
       \E s \in {LoopSelectedIndex(q)}, outcome \in {LoopSelection(q)} :
       \E marked \in {IF s = 0 THEN q ELSE [q EXCEPT ![s].is_pending = TRUE]} :
       \E selection \in
              {[ready |-> [k \in Indices(LoopReady(q)) |-> q[LoopReady(q)[k]]],
                selected |-> IF outcome = "selected" THEN q[s] ELSE NoItem]} :
       IF ~NothingPlaying(loop)
       THEN /\ loop' = Sleep(loop, CheckIntervalSeconds)
            /\ UNCHANGED <<message_queue, currently_playing, fade>>
       ELSE IF outcome = "raise"
       THEN /\ loop' = Cooldown(loop, "AttributeError")
            /\ UNCHANGED <<message_queue, currently_playing, fade>>
       ELSE IF outcome = "none"
       THEN /\ loop' = [Sleep(loop, CheckIntervalSeconds) EXCEPT !.sel = selection]
            /\ UNCHANGED <<message_queue, currently_playing, fade>>
       ELSE IF outcome = "activate"
       THEN \E defined \in BOOLEAN, activates \in BOOLEAN :
              /\ activates => defined
              /\ message_queue' = ActivateNextPriorityMessage(q, activates)
              /\ loop' = IF defined
                         THEN [Sleep(loop, CheckIntervalSeconds)
                                  EXCEPT !.sel = selection]
                         ELSE Cooldown(loop, "AttributeError")
              /\ UNCHANGED <<currently_playing, fade>>
       ELSE \E defined \in BOOLEAN, cancelled \in {{}, Running(fade)} :
              /\ message_queue' = marked
              /\ IF defined
                 THEN /\ currently_playing' = RegisterMessageStart(marked[s])
                      /\ fade' = StartMessageTransition(fade, cancelled)
                      /\ loop' = [loop EXCEPT !.thread = "fade_wait",
                                              !.wake = now + FadeWaitUnits(fade),
                                              !.starting = marked[s],
                                              !.starts = @ + 1,
                                              !.sel = selection]
                 ELSE /\ loop' = [Cooldown(loop, "AttributeError")
                                     EXCEPT !.sel = selection]
                      /\ UNCHANGED <<currently_playing, fade>>
    /\ UNCHANGED <<now, last_end_time_by_priority, last_global_end_time,
                   queue_file, ret, calls, session_lock, loaded>>

\* _start_message_playback from play_message on, and the sleep of the iteration
LoopPlay ==
    /\ loop.thread = "fade_wait" /\ now >= loop.wake
    /\ \E ok \in BOOLEAN :
          IF ok
          THEN /\ loop' = [Sleep(loop, CheckIntervalSeconds) EXCEPT
                             !.current_playing_message = loop.starting,
                             !.starting = NoItem,
                             !.player = "message",
                             !.overlap = @ \/ loop.player = "message"
                                           \/ loop.current_playing_message # NoItem]
               /\ UNCHANGED currently_playing
          ELSE /\ loop' = [Sleep(loop, CheckIntervalSeconds) EXCEPT
                             !.starting = NoItem,
                             !.player = "radio",
                             !.failed = @ + 1]
               /\ currently_playing' = NoItem
    /\ UNCHANGED <<now, message_queue, last_end_time_by_priority,
                   last_global_end_time, queue_file, ret, calls, session_lock,
                   loaded, fade>>

\* time passes until the loop thread wakes, or until the join of stop() gives
\* up if that comes first; a join whose timeout is over returns before more
\* time passes. Once stop() has been called the thread is followed to its exit.
Pass ==
    /\ loop.thread \in {"sleep", "end_wait", "fade_wait"}
    /\ now < loop.wake
    /\ loop.wake <= Seconds(MaxLoopSeconds) \/ loop.stop # "none"
    /\ ~(loop.stop = "joining" /\ now >= loop.join)
    /\ now' = IF loop.stop = "joining" /\ loop.join < loop.wake
              THEN loop.join ELSE loop.wake
    /\ UNCHANGED <<QueueState, session_lock, loaded, fade, loop>>

\* the fade threads run to their end
FadeThreadsRun ==
    /\ fade.threads # <<>>
    /\ \E last_first \in BOOLEAN : fade' = RunFadeThreads(fade, last_first)
    /\ UNCHANGED <<now, QueueState, session_lock, loaded, loop>>

\* the messages the user adds while the loop runs
LoopAddChoices == {<<"d", 1, 4>>}

NextLoop ==
    \/ ManagerStart
    \/ ManagerStop
    \/ StopReturn
    \/ LoopCheck
    \/ LoopHandleEnd
    \/ LoopSelect
    \/ LoopPlay
    \/ Pass
    \/ FadeThreadsRun
    \/ \E c \in LoopAddChoices : AddMessage(c[1], c[2], c[3])

\* entries of 'messages' in the file the application finds when it starts
LoopA ==
    [filename |-> "a", priority |-> 1, interval |-> 3, interval_seconds |-> 1,
     next_play_time |-> Isoformat(0), is_pending |-> FALSE,
     end_time |-> Absent, last_played |-> Absent]

LoopB == [LoopA EXCEPT !.filename = "b", !.interval = 6, !.interval_seconds = 3]

LoopC == [LoopA EXCEPT !.filename = "c", !.interval = 4, !.interval_seconds = 2]

\* no file, or the file a shutdown left, with one message or three
LoopFiles ==
    {NoFile, DictFile(Isoformat(0), TRUE, <<LoopA>>),
     DictFile(Isoformat(0), TRUE, <<LoopA, LoopB, LoopC>>)}

\* QueueService.__init__(queue_file_path), AudioFadeManager.__init__ and
\* MessageQueueManager.__init__ when the application starts
InitLoop ==
    /\ now = 0
    /\ queue_file \in LoopFiles
    /\ session_lock = TRUE
    /\ loaded = LoadRecord(queue_file, TRUE)
    /\ message_queue = Heapify(ResetExpiredTimes(loaded.items))
    /\ last_end_time_by_priority = NoEndTimes
    /\ last_global_end_time = None
    /\ currently_playing = NoItem
    /\ ret = Result("startup", NoItem, loaded.is_restart)
    /\ calls = [ends |-> 0, removes |-> 0]
    /\ FadeInit /\ LoopInit

SpecLoop == InitLoop /\ [][NextLoop]_vars

\* the steps of the loop thread
LoopThread == LoopCheck \/ LoopHandleEnd \/ LoopSelect \/ LoopPlay

\* the loop thread and the caller of stop() keep being scheduled, and time passes
SpecLoopFair ==
    /\ InitLoop /\ [][NextLoop]_vars
    /\ WF_vars(LoopThread) /\ WF_vars(StopReturn) /\ WF_vars(Pass)

-----------------------------------------------------------------------------
(* The rotation over unbounded time: instants are counted from MaxPast units
   before the current one, so that now stays at MaxPast and the passing of time
   moves every stored instant towards 0; older instants are kept at 0 *)

MaxPast == 4

\* an instant after d units of time have passed
ShiftTime(t, d) == IF t \in {None, Missing} THEN t ELSE Max({t - d, 0})

ShiftItem(item, d) ==
    [item EXCEPT !.next_play_time = ShiftTime(@, d),
                 !.end_time = ShiftTime(@, d),
                 !.last_played = ShiftTime(@, d)]

ShiftStamp(s, d) == IF IsIso(s) THEN Isoformat(ShiftTime(Fromisoformat(s), d)) ELSE s

ShiftFile(data, d) ==
    IF data.format # "dict" THEN data
    ELSE [data EXCEPT
            !.save_timestamp = ShiftStamp(@, d),
            !.messages = [i \in Indices(@) |->
                [@[i] EXCEPT !.next_play_time = ShiftStamp(@, d),
                             !.end_time = ShiftStamp(@, d),
                             !.last_played = ShiftStamp(@, d)]]]

\* one unit of time passes
Elapse ==
    /\ message_queue' = [i \in Indices(message_queue) |->
                             ShiftItem(message_queue[i], 1)]
    /\ last_end_time_by_priority' =
           [p \in Priorities |-> ShiftTime(last_end_time_by_priority[p], 1)]
    /\ last_global_end_time' = ShiftTime(last_global_end_time, 1)
    /\ currently_playing' = ShiftItem(currently_playing, 1)
    /\ queue_file' = ShiftFile(queue_file, 1)
    /\ ret' = [ret EXCEPT !.msg = ShiftItem(@, 1)]
    /\ UNCHANGED <<now, session_lock, loaded, calls, fade, loop>>

\* a tick of the loop while nothing plays: the scheduler is asked for a message
FairQuery ==
    /\ currently_playing = NoItem
    /\ GetNextMessage

\* the message that plays reports its end
FairEnd ==
    /\ currently_playing # NoItem
    /\ RegisterMessageEndEffect([currently_playing EXCEPT !.end_time = now])
    /\ UNCHANGED <<now, session_lock, loaded, calls, fade, loop>>

\* the messages the user adds
FairAddChoices == {<<"a", 1, 3>>, <<"b", 1, 6>>}

NextFair ==
    \/ \E c \in FairAddChoices : AddMessage(c[1], c[2], c[3])
    \/ FairQuery
    \/ FairEnd
    \/ Elapse

\* QueueService.__init__ with no persisted file, at the instant MaxPast
InitFair ==
    /\ now = MaxPast
    /\ message_queue = <<>>
    /\ last_end_time_by_priority = NoEndTimes
    /\ last_global_end_time = None
    /\ currently_playing = NoItem
    /\ queue_file = NoFile
    /\ session_lock = TRUE
    /\ loaded = NoLoad
    /\ ret = Result("init", NoItem, FALSE)
    /\ calls = [ends |-> 0, removes |-> 0]
    /\ FadeInit /\ LoopInit

\* time passes, the loop keeps ticking and every started message ends
SpecFair ==
    /\ InitFair /\ [][NextFair]_vars
    /\ WF_vars(Elapse) /\ WF_vars(FairQuery) /\ WF_vars(FairEnd)

-----------------------------------------------------------------------------
(* Properties of the scheduler *)

Queued(filename) ==
    {i \in Indices(message_queue) : message_queue[i].filename = filename}

ActiveIndices == {i \in Indices(message_queue) : ~message_queue[i].is_pending}

\* the queued message register_message_end looked up, after the call
EndedItems ==
    {i \in Indices(message_queue) :
        /\ message_queue[i].filename = ret.msg.filename
        /\ message_queue[i].priority = ret.msg.priority}

\* C1: after any sequence of add calls from the empty queue, no two queued
\* items have the same filename.
C1_UniqueAfterAdds ==
    \A i, j \in Indices(message_queue) :
        i # j => message_queue[i].filename # message_queue[j].filename

\* an add of a queued filename was refused while two other items are queued
C1_Witness ==
    /\ ret.op = "add" /\ ~ret.flag
    /\ Len(message_queue) >= 2

\* C2: in every reachable state all items with is_pending = false have the
\* same priority.
C2_OneActiveTier ==
    \A i, j \in ActiveIndices :
        message_queue[i].priority = message_queue[j].priority

\* the queue holds exactly one item of each of the priorities 1, 2 and 3,
\* or did before the call removed the item that ended
ThreeTiers ==
    \/ /\ ret.msg.interval > 0
       /\ Len(message_queue) = 3
       /\ ExistingPriorities(message_queue) = {1, 2, 3}
    \/ /\ ret.msg.interval <= 0
       /\ Len(message_queue) = 2
       /\ ExistingPriorities(message_queue) = {1, 2, 3} \ {ret.msg.priority}

Tier(p) == {i \in Indices(message_queue) : message_queue[i].priority = p}

CyclicNext(p) == IF p = 1 THEN 2 ELSE IF p = 2 THEN 3 ELSE 1

-----------------------------------------------------------------------------
(* Properties of the persistence file *)

\* load_queue ran on a file of the current format
LoadedDict == loaded.at # None /\ loaded.data.format = "dict"

\* the seconds between the save_timestamp of the loaded file and the load
LoadedGap == loaded.at - Fromisoformat(loaded.data.save_timestamp)

Unset(t) == t \in {None, Missing}

\* interval_seconds as stored, int(interval * 60) when the entry has none
StoredIntervalSeconds(item_data) ==
    IF item_data.interval_seconds = Missing
    THEN IntervalSeconds(item_data.interval) ELSE item_data.interval_seconds

\* C6: loading a snapshot whose is_shutdown_save flag is true returns, for every
\* stored item, whatever the stored values, the session marker and the gap:
\* is_pending = (priority > 1), next_play_time = now + interval_seconds, and
\* last_played and end_time unset.
C6_ShutdownReset ==
    (LoadedDict /\ loaded.data.is_shutdown_save) =>
        /\ loaded.is_restart
        /\ Len(loaded.items) = Len(loaded.data.messages)
        /\ \A i \in Indices(loaded.items) :
               /\ loaded.items[i].filename = loaded.data.messages[i].filename
               /\ loaded.items[i].priority = loaded.data.messages[i].priority
               /\ loaded.items[i].interval_seconds =
                      StoredIntervalSeconds(loaded.data.messages[i])
               /\ loaded.items[i].is_pending = (loaded.items[i].priority > 1)
               /\ loaded.items[i].next_play_time =
                      loaded.at + Seconds(loaded.items[i].interval_seconds)
               /\ loaded.items[i].last_played = None
               /\ loaded.items[i].end_time = None

\* a shutdown snapshot is loaded with the marker present and no time gap; it
\* stores a pending item of priority 1 with an end_time, which comes back active
C6_Witness ==
    /\ LoadedDict /\ loaded.data.is_shutdown_save
    /\ loaded.lock
    /\ loaded.data.save_timestamp = Isoformat(loaded.at)
    /\ \E i \in Indices(loaded.items) :
           /\ loaded.data.messages[i].is_pending
           /\ loaded.data.messages[i].priority = 1
           /\ loaded.data.messages[i].end_time # Absent
           /\ ~loaded.items[i].is_pending

\* the loaded file has no shutdown flag, the marker exists and the gap is under 60 s
\* an entry as save_queue writes it: every key present, the times in ISO format
SavedEntry(item_data) ==
    item_data.priority # Missing /\ IsIso(item_data.next_play_time)

LiveReloadCase ==
    /\ LoadedDict
    /\ \A i \in Indices(loaded.data.messages) : SavedEntry(loaded.data.messages[i])
    /\ ~loaded.data.is_shutdown_save
    /\ loaded.lock
    /\ IsIso(loaded.data.save_timestamp)
    /\ LoadedGap < Seconds(TimeGapThreshold)

\* the loaded item has the values of the stored entry
SameAsStored(item, item_data) ==
    /\ item.filename = item_data.filename
    /\ item.priority = item_data.priority
    /\ item.interval = item_data.interval
    /\ item.interval_seconds = StoredIntervalSeconds(item_data)
    /\ item.next_play_time = Fromisoformat(item_data.next_play_time)
    /\ item.is_pending = item_data.is_pending
    /\ IF item_data.end_time = Absent THEN Unset(item.end_time)
       ELSE item.end_time = Fromisoformat(item_data.end_time)
    /\ IF item_data.last_played = Absent THEN Unset(item.last_played)
       ELSE item.last_played = Fromisoformat(item_data.last_played)

\* the loaded item has the values of the item in memory
SameAsSaved(item, saved) ==
    /\ item.filename = saved.filename
    /\ item.priority = saved.priority
    /\ item.interval = saved.interval
    /\ item.interval_seconds =
           IF Unset(saved.interval_seconds) THEN IntervalSeconds(saved.interval)
           ELSE saved.interval_seconds
    /\ item.next_play_time = saved.next_play_time
    /\ item.is_pending = saved.is_pending
    /\ IF Unset(saved.end_time) THEN Unset(item.end_time)
       ELSE item.end_time = saved.end_time
    /\ IF Unset(saved.last_played) THEN Unset(item.last_played)
       ELSE item.last_played = saved.last_played

\* the loaded file is the one save_queue(self.message_queue) writes
LoadedOwnSave ==
    loaded.data.messages = SaveData(message_queue, FALSE).messages

\* C7: with no shutdown flag, the session marker present and a save gap under
\* 60 s, load returns for every stored item the saved filename, priority,
\* interval, interval_seconds, next_play_time, is_pending, end_time and
\* last_played; save(items, false) followed by such a load is the identity on
\* these fields.
C7_LiveReloadPreserves ==
    LiveReloadCase =>
        /\ ~loaded.is_restart
        /\ Len(loaded.items) = Len(loaded.data.messages)
        /\ \A i \in Indices(loaded.items) :
               SameAsStored(loaded.items[i], loaded.data.messages[i])
        /\ LoadedOwnSave =>
               /\ Len(loaded.items) = Len(message_queue)
               /\ \A i \in Indices(loaded.items) :
                      SameAsSaved(loaded.items[i], message_queue[i])

\* the queue in memory, saved without the shutdown flag, is loaded half a minute
\* later; it holds an added item with no interval_seconds attribute and an item
\* that has an end_time and a last_played time
C7_Witness ==
    /\ LiveReloadCase /\ LoadedOwnSave
    /\ ret.op = "load"
    /\ LoadedGap > 0
    /\ \E i \in Indices(message_queue) :
           message_queue[i].interval_seconds = Missing
    /\ \E i \in Indices(message_queue) :
           /\ message_queue[i].end_time # None
           /\ ~Unset(message_queue[i].last_played)
           /\ loaded.items[i].end_time = message_queue[i].end_time

\* C8: the restart decision follows the precedence shutdown flag -> restart,
\* else session marker missing -> restart, else gap between the save timestamp
\* and now above 60 s -> restart, else live reload; a gap of exactly 60 s with
\* the marker present and no flag is a live reload.
C8_RestartPrecedence ==
    (LoadedDict /\ IsIso(loaded.data.save_timestamp)) =>
        /\ loaded.data.is_shutdown_save => loaded.is_restart
        /\ (~loaded.data.is_shutdown_save /\ ~loaded.lock) => loaded.is_restart
        /\ (/\ ~loaded.data.is_shutdown_save /\ loaded.lock
            /\ LoadedGap > Seconds(TimeGapThreshold)) => loaded.is_restart
        /\ (/\ ~loaded.data.is_shutdown_save /\ loaded.lock
            /\ LoadedGap <= Seconds(TimeGapThreshold)) => ~loaded.is_restart

\* a file with no flag is loaded exactly 60 s after it was saved, the marker
\* present, and its items keep their stored state
C8_Witness ==
    /\ LoadedDict /\ IsIso(loaded.data.save_timestamp)
    /\ ~loaded.data.is_shutdown_save /\ loaded.lock
    /\ LoadedGap = Seconds(TimeGapThreshold)
    /\ ~loaded.is_restart
    /\ \E i \in Indices(loaded.items) :
           loaded.items[i].is_pending # (loaded.items[i].priority > 1)

-----------------------------------------------------------------------------
(* Properties of the fade manager *)

\* C9: for every fade_radio_volume(start, end) call with end below the floor
\* (background_volume), every volume a thread of that ramp applies to the radio
\* channel, the first step and the final value included, is at least the floor.
C9_FadeFloor ==
    fade.applied.below => fade.applied.value >= fade.applied.floor

-----------------------------------------------------------------------------
(* The playback loop *)

\* C5: the message the loop obtains for the current time is, among the
\* messages that are not pending and whose next_play_time has come, one of the
\* numerically lowest priority and among those one with the earliest
\* next_play_time; it obtains none when there is no such message.
C5_LoopSelectsEarliest ==
    LET ready == loop.sel.ready
        selected == loop.sel.selected
    IN  IF ready = <<>> THEN selected = NoItem
        ELSE /\ \E k \in Indices(ready) : ready[k] = selected
             /\ \A k \in Indices(ready) :
                   /\ selected.priority <= ready[k].priority
                   /\ ready[k].priority = selected.priority
                         => selected.next_play_time <= ready[k].next_play_time

\* C10: the loop commands the player to play a message only when no message
\* is playing, and every start-of-message sequence but the last one has been
\* followed by its end-of-message sequence or has failed.
C10_SingleFlight ==
    /\ ~loop.overlap
    /\ loop.starts - loop.ended - loop.failed \in {0, 1}
    /\ loop.thread = "fade_wait" => loop.current_playing_message = NoItem

\* the second start-of-message sequence runs, after the end-of-message
\* sequence of the first message
C10_Witness ==
    /\ loop.starts >= 2
    /\ loop.ended >= 1
    /\ loop.thread = "fade_wait"
    /\ loop.starting # NoItem

-----------------------------------------------------------------------------
(* Fairness of the rotation *)

Selected(filename) ==
    ret.op = "get_next" /\ ret.flag /\ ret.msg.filename = filename

\* C11: while the loop keeps ticking and every started message ends, every
\* message that is in the queue with a positive interval is eventually
\* selected to play.
C11_NoStarvation ==
    \A c \in FairAddChoices : (Queued(c[1]) # {}) ~> Selected(c[1])

-----------------------------------------------------------------------------
(* Error handling of the scheduler *)

\* C12: add_message for a filename that is already queued returns no item
\* and leaves the queue as it was: the same items with the same priority,
\* interval, next_play_time and is_pending.
C12_DuplicateAddRejected ==
    [][\A c \in AddChoices :
          (Queued(c[1]) # {} /\ AddMessage(c[1], c[2], c[3]))
              => /\ ret'.op = "add" /\ ~ret'.flag /\ ret'.msg = NoItem
                 /\ message_queue' = message_queue]_vars

\* an add was rejected for a message that is queued with another priority
C12_Witness ==
    /\ ret.op = "add" /\ ~ret.flag
    /\ \E c \in AddChoices : \E i \in Queued(c[1]) :
          message_queue[i].priority # c[2]

\* C13: asking for the next message on an empty queue gives no message and
\* raises nothing, in get_next_message and in the selection of the loop.
C13_EmptyQueueNoRaise ==
    message_queue = <<>>
        => /\ loop.error = "none"
           /\ loop.sel.selected = NoItem
           /\ ret.op = "get_next" => ret.msg = NoItem /\ ~ret.flag

-----------------------------------------------------------------------------
(* Error handling of the serializer *)

\* the entry cannot be turned into an item by the load that was made
BadEntry(item_data) ==
    \/ item_data.priority = Missing
    \/ ~loaded.is_restart /\ ~IsIso(item_data.next_play_time)

\* C14: load_queue returns the empty list when there is no file and when
\* reading the file or building any of its items fails; it never returns a
\* part of the stored items.
C14_LoadAllOrNothing ==
    loaded.at # None
        => /\ loaded.data.format \in {"none", "corrupt"} => loaded.items = <<>>
           /\ loaded.data.format \notin {"none", "corrupt"}
                 => /\ Len(loaded.items) \in {0, Len(loaded.data.messages)}
                    /\ (\E i \in Indices(loaded.data.messages) :
                           BadEntry(loaded.data.messages[i]))
                          => loaded.items = <<>>

\* a file whose first entry is sound and whose second is not was loaded
C14_Witness ==
    /\ loaded.at # None
    /\ loaded.data.format = "dict"
    /\ Len(loaded.data.messages) = 2
    /\ ~BadEntry(loaded.data.messages[1])
    /\ BadEntry(loaded.data.messages[2])
    /\ loaded.items = <<>>

\* C15: save_queue(items, True) writes is_shutdown_save = true and removes
\* the session marker, save_queue(items, False) writes the flag as false and
\* leaves the marker as it is, and a load of a file whose last save was a
\* shutdown save is classified as a restart.
C15_ShutdownSave ==
    [][/\ SerializerSaveQueue(TRUE)
            => queue_file'.is_shutdown_save /\ ~session_lock'
       /\ SerializerSaveQueue(FALSE)
            => ~queue_file'.is_shutdown_save /\ session_lock' = session_lock
       /\ (/\ queue_file.format = "dict"
           /\ queue_file.is_shutdown_save
           /\ SerializerLoadQueue \/ Startup)
            => loaded'.is_restart /\ loaded'.data = queue_file]_vars

\* a queue with an added message was saved at shutdown while the marker
\* existed, and the next process, which writes a new marker, loaded it
C15_Witness ==
    /\ ret.op = "startup"
    /\ loaded.data.format = "dict"
    /\ loaded.data.is_shutdown_save
    /\ \E i \in Indices(loaded.data.messages) :
          loaded.data.messages[i].filename = "c"
    /\ loaded.lock
    /\ loaded.is_restart

\* C16: a file that holds a bare list of entries is loaded, and always as a
\* restart, with or without the session marker and whenever it was written:
\* every entry comes back rescheduled from the time of the load.
C16_BareListIsRestart ==
    (loaded.at # None /\ loaded.data.format = "list") =>
        /\ loaded.is_restart
        /\ Len(loaded.items) = Len(loaded.data.messages)
        /\ \A i \in Indices(loaded.items) :
              /\ loaded.items[i].filename = loaded.data.messages[i].filename
              /\ loaded.items[i].is_pending = (loaded.data.messages[i].priority > 1)
              /\ loaded.items[i].next_play_time =
                     loaded.at + Seconds(StoredIntervalSeconds(loaded.data.messages[i]))
              /\ Unset(loaded.items[i].last_played)
              /\ Unset(loaded.items[i].end_time)

\* a bare list is loaded at once by the session that holds the marker
C16_Witness ==
    /\ loaded.at = 0
    /\ loaded.data.format = "list"
    /\ loaded.lock
    /\ ret.op = "load"
    /\ Len(loaded.items) = 2

\* C17: once a new ramp has been started, no step of an older ramp applies a
\* volume: every thread that sets the radio volume belongs to the latest call
\* of fade_radio_volume.
C17_NewRampStopsOlder ==
    [][\A t \in Indices(fade.threads) :
          (FadeThreadStep(t) /\ AppliesVolume(fade, t)) =>
              fade.threads[t].ramp = fade.ramps]_vars

\* C18: an exception raised in an iteration of the loop does not end the loop:
\* the thread sleeps for the cooldown, then tests running again and goes on
\* with its checks if it is true; the thread exits only when running is false.
C18_ExceptionCooldown ==
    [][/\ (loop.error = "none" /\ loop'.error # "none") =>
             /\ loop'.thread = "sleep"
             /\ loop'.wake = now + Seconds(CooldownSeconds)
             /\ loop'.running = loop.running
       /\ (loop.error # "none" /\ loop'.thread # loop.thread) =>
             /\ now >= loop.wake
             /\ IF loop.running
                THEN loop'.thread \in {"select", "end_wait"}
                ELSE loop'.thread = "exited"
       /\ (loop.thread # "exited" /\ loop'.thread = "exited") =>
             ~loop.running]_vars

\* the cooldown after the TypeError of an end is over and the loop still runs
C18_Witness ==
    /\ loop.error = "TypeError"
    /\ loop.thread = "sleep"
    /\ now = loop.wake
    /\ loop.running
    /\ loop.starts >= 1

\* C19: after stop() the loop thread eventually exits and does nothing more
\* once it has exited, and stop() returns at the latest when the timeout of its
\* join is over, whether or not the thread has exited by then.
C19_StopBounded ==
    /\ (loop.stop # "none") ~> (loop.thread = "exited")
    /\ (loop.stop = "joining") ~> (loop.stop = "returned")
    /\ [](loop.stop = "joining" => now <= loop.join)
    /\ [][loop.thread = "exited" =>
            /\ loop'.thread = "exited"
            /\ loop'.player = loop.player
            /\ loop'.starts = loop.starts]_vars

\* stop() has returned at the end of the timeout while the loop thread, still
\* in the wait of a start, has not yet seen running = false
C19_Witness ==
    /\ loop.stop = "returned"
    /\ now = loop.join
    /\ loop.thread = "fade_wait"
    /\ loop.wake > now

\* nothing plays or is being started, and every queued message is pending and
\* has never been played: no check of the loop selects or activates a message
Locked ==
    /\ loop.thread \in {"sleep", "select"}
    /\ NothingPlaying(loop) /\ loop.starting = NoItem
    /\ message_queue # <<>>
    /\ \A i \in Indices(message_queue) :
          message_queue[i].is_pending /\ message_queue[i].last_played = None

\* the loop alone never leaves Locked: only a message added by the user or the
\* exit of the thread changes it
LockedForever ==
    [][(Locked /\ message_queue' = message_queue /\ loop'.thread # "exited")
          => Locked']_vars

\* C20: after a failed start the loop is back on the radio with no message
\* recorded as playing, and the queue is not left locked: while the loop idles,
\* some queued message is still one that a later check can select.
C20_FailedStartSchedulable ==
    (loop.failed > 0 /\ NothingPlaying(loop) /\ loop.starting = NoItem
        /\ loop.thread \in {"sleep", "select"}) =>
        /\ loop.player = "radio"
        /\ currently_playing = NoItem
        /\ ~Locked

-----------------------------------------------------------------------------
(* Cleanup and presets of the fade manager *)

\* C21: cleanup leaves the radio at the normal volume, and a thread of a ramp
\* that was running when cleanup cleared the list applies no volume afterwards.
C21_CleanupRestoresVolume ==
    [][/\ FadeCleanup => fade'.radio_volume = NormalVolume
       /\ \A t \in Indices(fade.threads) :
             (fade.fade_threads = 0 /\ FadeThreadStep(t)) =>
                 fade'.radio_volume = fade.radio_volume]_vars

\* C22: apply_preset with one of its four names sets the duration, the curve
\* and the background volume of that preset, exactly as the table gives them;
\* with any other name it changes nothing.
C22_ApplyPresetExact ==
    [][\A preset_name \in PresetInputs :
          CallApplyPreset(preset_name) =>
              IF preset_name \in PresetNames
              THEN fade' = [fade EXCEPT
                     !.fade_duration =
                         (Presets[preset_name][1] * UnitsPerSecond) \div 2,
                     !.fade_curve = Presets[preset_name][2],
                     !.background_volume = Presets[preset_name][3]]
              ELSE fade' = fade]_vars

\* the preset "smooth" is in force while the threads of a ramp run
C22_Witness ==
    /\ fade.fade_duration = (6 * UnitsPerSecond) \div 2
    /\ fade.fade_curve = "logarithmic"
    /\ fade.background_volume = 8
    /\ fade.threads # <<>>

-----------------------------------------------------------------------------
(* The two threads on the queue *)

\* the queue, the end times and the message playing after clear_queue and
\* register_message_end(message) were called one after the other
AfterClearThenEnd(message) ==
    <<RegisterMessageEndQueue(<<>>, message),
      [NoEndTimes EXCEPT ![message.priority] = message.end_time],
      message.end_time>>

AfterEndThenClear == <<<<>>, NoEndTimes, None>>

\* C23: the calls of the two threads exclude each other. A scan never sees a
\* half-applied change (the ready list it builds holds no message twice), and
\* when a clear_queue and a register_message_end that overlapped have both
\* returned, the scheduler is in the state one of the two orders produces.
C23_MutuallyExclusive ==
    [][/\ \A i, j \in Indices(loop'.sel.ready) :
             i # j => loop'.sel.ready[i].filename # loop'.sel.ready[j].filename
       /\ (~RaceIdle /\ RaceIdle' /\ loop'.race.mixed) =>
             <<message_queue', last_end_time_by_priority', last_global_end_time'>>
                 \in {AfterClearThenEnd(loop'.race.msg), AfterEndThenClear}]_vars

-----------------------------------------------------------------------------
(* The three cases of add_message *)

\* the step is a call add_message(c[1], c[2], c[3]) that queues the message
Adds(c) ==
    AddMessage(c[1], c[2], c[3]) /\ ~AddRejected(message_queue, c[1])

\* the message of this filename in the queue after the step
AddedTo(q, filename) == q[CHOOSE i \in Indices(q) : q[i].filename = filename]

\* the messages queued before the step keep is_pending
PendingKept ==
    \A i \in Indices(message_queue) :
        AddedTo(message_queue', message_queue[i].filename).is_pending
            = message_queue[i].is_pending

\* C24: an add while nothing plays and no queued message is active makes the
\* new message active, due one interval_seconds of its own after the call.
C24_AddToIdleQueue ==
    [][\A c \in AddChoices :
          (Adds(c) /\ currently_playing = NoItem /\ ActiveIndices = {}) =>
              /\ ~AddedTo(message_queue', c[1]).is_pending
              /\ AddedTo(message_queue', c[1]).next_play_time =
                     now + Seconds(IntervalSeconds(c[3]))]_vars

\* C25: an add while a message plays queues the new message as pending,
\* whatever its priority, and changes is_pending of no other message.
C25_AddWhilePlaying ==
    [][\A c \in AddChoices :
          (Adds(c) /\ currently_playing # NoItem) =>
              /\ AddedTo(message_queue', c[1]).is_pending
              /\ PendingKept]_vars

\* C26: an add while nothing plays and some message is active: a priority
\* strictly below the lowest active one makes the new message active and the
\* active ones pending; any other priority, an equal one included, leaves the
\* new message pending and the active ones active.
C26_AddPreempts ==
    [][\A c \in AddChoices :
          (Adds(c) /\ currently_playing = NoItem /\ ActiveIndices # {}) =>
              IF c[2] < Min({message_queue[i].priority : i \in ActiveIndices})
              THEN /\ ~AddedTo(message_queue', c[1]).is_pending
                   /\ \A i \in ActiveIndices :
                         AddedTo(message_queue', message_queue[i].filename).is_pending
              ELSE /\ AddedTo(message_queue', c[1]).is_pending
                   /\ \A i \in ActiveIndices :
                         ~AddedTo(message_queue', message_queue[i].filename).is_pending]_vars

-----------------------------------------------------------------------------
(* The completion handler *)

\* C27: register_message_end keeps last_global_end_time at the latest end time
\* registered so far, so that an end registered with an earlier time does not
\* move it back, and every message of the tier it activates is active and due
\* at last_global_end_time plus its own interval.
C27_LatestEndTime ==
    [][\A t \in EndTimes :
          RegisterEnd(t) =>
              /\ last_global_end_time' = Max({last_global_end_time, t})
              /\ \A i \in Indices(message_queue') :
                    message_queue'[i].priority =
                        FindNextPriority(message_queue', currently_playing.priority)
                    => /\ ~message_queue'[i].is_pending
                       /\ message_queue'[i].next_play_time =
                              last_global_end_time' + message_queue'[i].interval]_vars

\* C28: register_message_end leaves the queued message that ended with
\* end_time and last_played at the completion time; with more than one tier
\* in the queue that message is pending, and so is every message of a
\* priority beyond the tier the call activated.
C28_EndMarksItem ==
    (ret.op = "end" /\ ret.flag) =>
        \A i \in EndedItems :
            /\ message_queue[i].end_time = ret.msg.end_time
            /\ message_queue[i].last_played = ret.msg.end_time
            /\ Cardinality(ExistingPriorities(message_queue)) > 1 =>
                  /\ message_queue[i].is_pending
                  /\ \A j \in Indices(message_queue) :
                        message_queue[j].priority >
                            FindNextPriority(message_queue, ret.msg.priority)
                        => message_queue[j].is_pending


\* the queued messages, whatever their position in the heap
Items(q) == {q[i] : i \in Indices(q)}

\* C29: the message get_next_message returns is marked pending in the queue
\* and nothing else in the queue changes; the message that is playing is not
\* returned again by a later call before register_message_end was called for it.
C29_SelectionOnlyMarks ==
    [][GetNextMessage /\ ret'.flag =>
          /\ Len(message_queue') = Len(message_queue)
          /\ \E s \in Indices(message_queue) :
                /\ message_queue[s].filename = ret'.msg.filename
                /\ Items(message_queue') =
                       Items([message_queue EXCEPT ![s].is_pending = TRUE])
          /\ (currently_playing # NoItem /\ calls.removes = 0) =>
                ret'.msg.filename # currently_playing.filename]_vars

\* C30: the set of queued filenames shrinks only through remove_message or
\* clear_queue; register_message_end of a message with interval <= 0 leaves
\* that message in the queue.
C30_NoImplicitRemoval ==
    [][\A t \in EndTimes : RegisterEnd(t) =>
          \A i \in Indices(message_queue) :
              \E j \in Indices(message_queue') :
                  message_queue'[j].filename = message_queue[i].filename]_vars

\* C31: after clear_queue the queue is empty, the end times per priority, the
\* last global end time and the currently playing marker are reset, and the
\* persistence file holds no messages.
C31_ClearResets ==
    [][ClearQueue =>
          /\ message_queue' = <<>>
          /\ last_end_time_by_priority' = NoEndTimes
          /\ last_global_end_time' = None
          /\ currently_playing' = NoItem
          /\ queue_file' = SaveQueueFile(<<>>)]_vars

\* C32: when the message that is playing has ended, _handle_message_end runs
\* to completion: register_message_end is called with the end time of the
\* fade, the player is back on the radio and current_playing_message is
\* cleared, so that the same end is handled once.
C32_EndSequenceCompletes ==
    [][LoopHandleEnd =>
          /\ calls'.ends = calls.ends + 1
          /\ last_global_end_time' = loop.current_playing_message.end_time
          /\ loop'.player = "radio"
          /\ loop'.current_playing_message = NoItem
          /\ loop'.error = "none"]_vars

\* C33: when nothing plays and a message is selected, the start of the message
\* goes in this order: the message is recorded as currently playing and no
\* schedule field changes, the fade of the radio to the background is started,
\* the fade duration passes, and only then is the player told to play.
C33_StartSequenceOrder ==
    [][/\ (LoopSelect /\ loop'.starts = loop.starts + 1) =>
             /\ currently_playing' = loop'.starting
             /\ Len(message_queue') = Len(message_queue)
             /\ \A i \in Indices(message_queue) :
                   message_queue'[i] =
                       [message_queue[i] EXCEPT
                           !.is_pending = message_queue'[i].is_pending]
             /\ \/ fade'.ramps = fade.ramps + 1
                \/ /\ fade.radio_volume > 0
                   /\ fade.radio_volume <= fade.background_volume
             /\ loop'.player = loop.player
             /\ loop'.current_playing_message = loop.current_playing_message
             /\ loop'.wake >= now + fade'.fade_duration
       /\ (LoopPlay /\ loop'.player = "message") =>
             /\ now >= loop.wake
             /\ loop'.current_playing_message = loop.starting]_vars

C33_Witness ==
    /\ loop.player = "message"
    /\ loop.current_playing_message # NoItem
    /\ currently_playing = loop.current_playing_message
    /\ fade.ramps > 0

\* C34: in every reachable state, whatever sequence of add_message,
\* get_next_message, remove_message and register_message_end led to it, no two
\* queued messages have the same filename.
C34_UniqueAlways ==
    \A f \in Files : Cardinality(Queued(f)) <= 1

\* C35: after remove_message(filename) returned True no message with that
\* filename is in the queue until a later add_message of it succeeds, also
\* when the removed message was the one playing and register_message_end is
\* called for it afterwards.
C35_RemovedStaysOut ==
    [][/\ \A f \in Files :
             (RemoveMessage(f) /\ ret'.flag) =>
                 \A i \in Indices(message_queue') : message_queue'[i].filename # f
       /\ \A t \in EndTimes :
             RegisterEnd(t) =>
                 \A f \in Files :
                     Queued(f) = {} =>
                         \A i \in Indices(message_queue') :
                             message_queue'[i].filename # f]_vars

\* C36: in every reachable state where the queue is not empty and no message
\* is selected or playing, at least one queued message is active.
C36_RotationNeverStalls ==
    (message_queue # <<>> /\ currently_playing = NoItem) => ActiveIndices # {}

\* the next_play_time values the load gave to the entries of a filename and priority
LoadedTimes(items, m) ==
    {items[j].next_play_time :
        j \in {k \in Indices(items) : /\ items[k].filename = m.filename
                                      /\ items[k].priority = m.priority}}

\* C37: right after QueueService.__init__ loaded a file, the messages that are
\* not pending are exactly those of the lowest priority queued, on a restart
\* and on a live reload and whatever is_pending the file stored; the messages
\* of the lowest priority whose time has passed are due 10 s from now.
C37_LoadActivatesLowest ==
    [][Startup =>
          \A i \in Indices(message_queue') :
              LET m == message_queue'[i]
                  lowest == m.priority = Min(ExistingPriorities(message_queue'))
                  times == LoadedTimes(loaded'.items, m)
              IN  /\ ~m.is_pending <=> lowest
                  /\ lowest =>
                        IF \E t \in times : t > now
                        THEN m.next_play_time \in times /\ m.next_play_time > now
                        ELSE m.next_play_time = now + Seconds(AddDelaySeconds)]_vars

\* a live reload made the message stored as pending active and due in 10 s,
\* and the one stored as active pending
C37_Witness ==
    /\ ret.op = "startup" /\ ~ret.flag
    /\ \E i, j \in Indices(message_queue) :
          /\ message_queue[i].filename = "a" /\ ~message_queue[i].is_pending
          /\ message_queue[i].next_play_time = now + Seconds(AddDelaySeconds)
          /\ message_queue[j].filename = "b" /\ message_queue[j].is_pending

-----------------------------------------------------------------------------
(* start() and stop() called again: loop.second is "polling" once a second
   start() has spawned its thread, which runs the loop from then on, and
   "none" before; stop() is not called again after it *)

\* MessageQueueManager.start while running: nothing is spawned
StartWhileRunning ==
    /\ loop.running
    /\ ret' = Result("start", NoItem, FALSE)
    /\ UNCHANGED <<now, message_queue, last_end_time_by_priority,
                   last_global_end_time, currently_playing, queue_file, calls,
                   session_lock, loaded, fade, loop>>

\* MessageQueueManager.stop while not running: it returns at once
StopWhileStopped ==
    /\ ~loop.running
    /\ ret' = Result("stop", NoItem, FALSE)
    /\ UNCHANGED <<now, message_queue, last_end_time_by_priority,
                   last_global_end_time, currently_playing, queue_file, calls,
                   session_lock, loaded, fade, loop>>

\* MessageQueueManager.start after a stop() that has returned: running is set
\* and a new thread is started, whether the first one has ended or not
StartAgain ==
    /\ ~loop.running /\ loop.stop = "returned" /\ loop.second = "none"
    /\ loop' = [loop EXCEPT !.running = TRUE, !.second = "polling",
                            !.stop = "none", !.join = None]
    /\ ret' = Result("start", NoItem, TRUE)
    /\ UNCHANGED <<now, message_queue, last_end_time_by_priority,
                   last_global_end_time, currently_playing, queue_file, calls,
                   session_lock, loaded, fade>>

\* the first start() and stop() of the application, and the start() after them
NextRestart ==
    \/ ManagerStart
    \/ loop.second = "none" /\ ManagerStop
    \/ StopReturn
    \/ StartWhileRunning
    \/ StopWhileStopped
    \/ StartAgain
    \/ LoopCheck
    \/ LoopHandleEnd
    \/ LoopSelect
    \/ LoopPlay
    \/ Pass
    \/ FadeThreadsRun

SpecRestart == InitLoop /\ [][NextRestart]_vars

\* C39: after any sequence of start() and stop() at most one thread runs the
\* loop: start() while running spawns no thread, stop() while not running does
\* nothing, and after a start() that followed a stop() whose join timed out the
\* first thread does not go on polling next to the new one: it leaves the loop
\* at its next test of self.running.
C39_SingleLoopThread ==
    [][/\ StartWhileRunning => loop' = loop
       /\ StopWhileStopped => loop' = loop
       /\ (LoopCheck /\ loop.second = "polling") => loop'.thread = "exited"]_vars

\* the persistence file is a save that is not a shutdown save and lists the
\* queued messages, each with the values it has in memory
FileMatchesQueue ==
    /\ queue_file.format = "dict"
    /\ ~queue_file.is_shutdown_save
    /\ Len(queue_file.messages) = Len(message_queue)
    /\ \A i \in Indices(message_queue) :
          LET item_data == queue_file.messages[i]
              item == message_queue[i]
          IN  /\ item_data.filename = item.filename
              /\ item_data.priority = item.priority
              /\ item_data.interval = item.interval
              /\ IsIso(item_data.next_play_time)
              /\ Fromisoformat(item_data.next_play_time) = item.next_play_time
              /\ item_data.is_pending = item.is_pending

\* C40 as stated: after each add_message, remove_message, register_message_end
\* and clear_queue has returned, the persistence file lists exactly the queued
\* messages with their filename, priority, interval, next_play_time and
\* is_pending, as a save that is not a shutdown save.
C40_FileMatchesAfterCall ==
    ret.op \in {"add", "remove", "end", "clear"} => FileMatchesQueue

\* C40, amended: the same after each add_message that queued its message, each
\* remove_message that returned True, each register_message_end and each
\* clear_queue.
C40_FileMatchesAfterChange ==
    (\/ ret.op \in {"add", "remove"} /\ ret.flag
     \/ ret.op \in {"end", "clear"}) => FileMatchesQueue

\* the end of a message was registered with two messages queued, one of them
\* pending and one rescheduled, and the file lists both
C40_Witness ==
    /\ ret.op = "end" /\ ret.flag
    /\ Len(message_queue) >= 2
    /\ \E i, j \in Indices(message_queue) :
          /\ message_queue[i].is_pending /\ ~message_queue[j].is_pending
          /\ message_queue[i].end_time # None
    /\ FileMatchesQueue


=============================================================================
